---- MODULE Spec2Model ----
(***************************************************************************)
(* PortfolioAIEngine (src/ai_engine.py) and the dashboard helpers that     *)
(* consume it (src/ui.py), as a state machine.                             *)
(*                                                                         *)
(* Python strings are sequences of one-character strings, so that          *)
(* strip/lower/upper, substring tests and difflib's ratio are computed,    *)
(* not assumed.  Python values of dynamic type (table cells, dict values)  *)
(* are tagged records: [k |-> "none"], [k |-> "num", v |-> n, d |-> m] (the  *)
(* float n/m in lowest terms, m > 0),                                     *)
(* [k |-> "str", v |-> s], [k |-> "bool", v |-> b], [k |-> "date", v |-> d]*)
(* (a date is a day number).  A dict is a function whose DOMAIN is the set *)
(* of keys present.                                                        *)
(***************************************************************************)
EXTENDS Integers, Sequences, FiniteSets, TLC

\* ------------------------------------------------------------------------
\* Python values
\* ------------------------------------------------------------------------

None == [k |-> "none"]
NaN == [k |-> "nan"]
Num(n) == [k |-> "num", v |-> n, d |-> 1]
Str(s) == [k |-> "str", v |-> s]
Bool(b) == [k |-> "bool", v |-> b]
Date(d) == [k |-> "date", v |-> d]

\* bool(x): None, 0, '' and False are falsy
Truthy(x) ==
  CASE x.k = "none" -> FALSE
    [] x.k = "num" -> x.v # 0
    [] x.k = "str" -> x.v # <<>>
    [] x.k = "bool" -> x.v
    [] OTHER -> TRUE

\* pd.isna / pd.notna of a scalar
IsNa(x) == x.k \in {"none", "nan"}

EmptyDict == [x \in {} |-> x]
IsEmpty(d) == DOMAIN d = {}
NonEmpty(d) == DOMAIN d # {}
Has(d, key) == key \in DOMAIN d
\* d.get(key, default)
Get(d, key, default) == IF key \in DOMAIN d THEN d[key] ELSE default
\* d[key] = val, as a new dict
Put(d, key, val) == [x \in (DOMAIN d) \cup {key} |-> IF x = key THEN val ELSE d[x]]
\* d.update(e), as a new dict
Update(d, e) == [x \in (DOMAIN d) \cup (DOMAIN e) |-> IF x \in DOMAIN e THEN e[x] ELSE d[x]]
\* the entries a guarded block of assignments makes: none when the guard fails
Under(cond, entries) == IF cond THEN entries ELSE EmptyDict
\* d after the blocks of assignments es, in order
RECURSIVE UpdateAll(_, _)
UpdateAll(d, es) == IF es = <<>> THEN d ELSE UpdateAll(Update(d, Head(es)), Tail(es))

\* ------------------------------------------------------------------------
\* Python strings
\* ------------------------------------------------------------------------

\* a str literal as the sequence of its characters
Chars(s) == [i \in 1..Len(s) |-> SubSeq(s, i, i)]

LowerCase == Chars("abcdefghijklmnopqrstuvwxyz")
UpperCase == Chars("ABCDEFGHIJKLMNOPQRSTUVWXYZ")

\* the character of to at the place c has in from, c itself when it has none
Mapped(c, from, to) ==
  IF \E i \in DOMAIN from : from[i] = c
  THEN to[CHOOSE i \in DOMAIN from : from[i] = c] ELSE c

\* str.lower(), str.upper()
Lower(s) == [i \in 1..Len(s) |-> Mapped(s[i], UpperCase, LowerCase)]
Upper(s) == [i \in 1..Len(s) |-> Mapped(s[i], LowerCase, UpperCase)]

IsSpace(c) == c = " "
\* str.strip()
Strip(s) ==
  IF \A i \in 1..Len(s) : IsSpace(s[i]) THEN <<>>
  ELSE LET lo == CHOOSE i \in 1..Len(s) : ~IsSpace(s[i]) /\ \A j \in 1..(i-1) : IsSpace(s[j])
           hi == CHOOSE i \in 1..Len(s) : ~IsSpace(s[i]) /\ \A j \in (i+1)..Len(s) : IsSpace(s[j])
       IN SubSeq(s, lo, hi)

\* sub in s
Contains(s, sub) ==
  \E i \in 0..(Len(s) - Len(sub)) : SubSeq(s, i + 1, i + Len(sub)) = sub

\* s.replace(c, '') for every character c of chars
RECURSIVE Without(_, _)
Without(s, chars) ==
  IF s = <<>> THEN <<>>
  ELSE IF Head(s) \in chars THEN Without(Tail(s), chars)
       ELSE <<Head(s)>> \o Without(Tail(s), chars)

\* ------------------------------------------------------------------------
\* Column Mapper
\* ------------------------------------------------------------------------


\* the first column of columns, in table order, that is one of matching
FirstColumn(columns, matching) ==
  IF \E i \in 1..Len(columns) : columns[i] \in matching
  THEN [found |-> TRUE,
        col |-> columns[CHOOSE i \in 1..Len(columns) :
                          /\ columns[i] \in matching
                          /\ \A j \in 1..(i-1) : columns[j] \notin matching]]
  ELSE [found |-> FALSE]

\* .lower().strip().replace('_', '').replace(' ', '').replace('-', '')
SepNormalized(s) == Without(Lower(Strip(s)), {"_", " ", "-"})
\* the .lower().strip() of a column name or of a pattern
ColLower(s) == Strip(Lower(s))

\* _detect_column on a non-empty table with these columns: for each pass the
\* loop over the columns is the outer one, the loop over the patterns the inner
_detect_column(columns, patterns) ==
  LET Pats == {patterns[i] : i \in 1..Len(patterns)}
      Exact(col) == \E p \in Pats : ColLower(col) = ColLower(p)
      Partial(col) == \E p \in Pats : \/ Contains(ColLower(col), ColLower(p))
                                      \/ Contains(ColLower(p), ColLower(col))
      Loose(col) == \E p \in Pats : \/ SepNormalized(col) = SepNormalized(p)
                                    \/ Contains(SepNormalized(col), SepNormalized(p))
      FirstFound(pass1, pass2, pass3) ==
        IF pass1.found THEN pass1
        ELSE IF pass2.found THEN pass2
        ELSE pass3
      Cols == {columns[i] : i \in 1..Len(columns)}
  IN FirstFound(FirstColumn(columns, {col \in Cols : Exact(col)}),
                FirstColumn(columns, {col \in Cols : Partial(col)}),
                FirstColumn(columns, {col \in Cols : Loose(col)}))


\* the pattern lists of _detect_columns_for_source, in its order
FieldPatterns ==
  <<
   [field |-> "id", patterns |-> <<
      Chars("project_id"),
      Chars("projectid"),
      Chars("project id"),
      Chars("project code"),
      Chars("project_code"),
      Chars("id"),
      Chars("project"),
      Chars("project_name"),
      Chars("project name"),
      Chars("name"),
      Chars("projectname"),
      Chars("project no"),
      Chars("project_no"),
      Chars("projectno"),
      Chars("project number"),
      Chars("project_number"),
      Chars("wbs"),
      Chars("wbs code"),
      Chars("wbs_code")
    >>],
   [field |-> "wave_num", patterns |-> <<
      Chars("wave #"),
      Chars("wave#"),
      Chars("wave_#"),
      Chars("wave"),
      Chars("wave_number"),
      Chars("wave number"),
      Chars("#")
    >>],
   [field |-> "name", patterns |-> <<
      Chars("project_name"),
      Chars("project name"),
      Chars("projectname"),
      Chars("name"),
      Chars("project title"),
      Chars("project_title"),
      Chars("title"),
      Chars("description")
    >>],
   [field |-> "start_date", patterns |-> <<
      Chars("baseline_start"),
      Chars("baseline start"),
      Chars("start_date"),
      Chars("start date"),
      Chars("start"),
      Chars("planned_start"),
      Chars("planned start"),
      Chars("begin_date"),
      Chars("begin date"),
      Chars("project_start"),
      Chars("project start"),
      Chars("estimated start date"),
      Chars("estimated start date of it work")
    >>],
   [field |-> "finish_date", patterns |-> <<
      Chars("baseline_finish"),
      Chars("baseline finish"),
      Chars("baseline_end"),
      Chars("baseline end"),
      Chars("end_date"),
      Chars("end date"),
      Chars("finish_date"),
      Chars("finish date"),
      Chars("finish"),
      Chars("end"),
      Chars("planned_finish"),
      Chars("planned finish"),
      Chars("planned_end"),
      Chars("planned end"),
      Chars("project_end"),
      Chars("project end"),
      Chars("completion_date"),
      Chars("completion date"),
      Chars("estimated end date"),
      Chars("estimated end date of it work")
    >>],
   [field |-> "forecast_finish", patterns |-> <<
      Chars("forecast_finish"),
      Chars("forecast finish"),
      Chars("forecast_end"),
      Chars("forecast end"),
      Chars("forecasted_finish"),
      Chars("forecasted finish"),
      Chars("estimated_finish"),
      Chars("estimated finish"),
      Chars("projected_finish"),
      Chars("projected finish"),
      Chars("forecast completion"),
      Chars("forecast_completion"),
      Chars("l4 forecast date"),
      Chars("l4 forecast"),
      Chars("l4_forecast_date")
    >>],
   [field |-> "budget", patterns |-> <<
      Chars("total_budget"),
      Chars("total budget"),
      Chars("budget"),
      Chars("approved_budget"),
      Chars("approved budget"),
      Chars("baseline_budget"),
      Chars("baseline budget"),
      Chars("planned_budget"),
      Chars("planned budget"),
      Chars("total_cost"),
      Chars("total cost"),
      Chars("project_budget"),
      Chars("project budget"),
      Chars("overall total budget"),
      Chars("total overall it costs")
    >>],
   [field |-> "capex", patterns |-> <<
      Chars("capex"),
      Chars("cap_ex"),
      Chars("capital_expense"),
      Chars("capital expense"),
      Chars("total budget capex")
    >>],
   [field |-> "opex", patterns |-> <<
      Chars("opex"),
      Chars("op_ex"),
      Chars("operating_expense"),
      Chars("operating expense"),
      Chars("total budget opex")
    >>],
   [field |-> "eac", patterns |-> <<
      Chars("eac"),
      Chars("total eac"),
      Chars("estimate at completion")
    >>],
   [field |-> "actual_cost", patterns |-> <<
      Chars("actual_cost"),
      Chars("actual cost"),
      Chars("cost"),
      Chars("amount"),
      Chars("actual_amount"),
      Chars("actual amount"),
      Chars("actuals"),
      Chars("spent"),
      Chars("expenditure"),
      Chars("total_actual"),
      Chars("total actual"),
      Chars("total")
    >>],
   [field |-> "hours", patterns |-> <<
      Chars("planned_hours"),
      Chars("planned hours"),
      Chars("hours"),
      Chars("effort"),
      Chars("estimated_hours"),
      Chars("estimated hours"),
      Chars("baseline_hours"),
      Chars("baseline hours"),
      Chars("total_hours"),
      Chars("total hours")
    >>],
   [field |-> "actual_hours", patterns |-> <<
      Chars("actual_hours"),
      Chars("actual hours"),
      Chars("hours"),
      Chars("worked_hours"),
      Chars("worked hours"),
      Chars("time_spent"),
      Chars("time spent"),
      Chars("logged_hours"),
      Chars("logged hours")
    >>],
   [field |-> "status", patterns |-> <<
      Chars("status"),
      Chars("project_status"),
      Chars("project status"),
      Chars("state"),
      Chars("phase"),
      Chars("current_status"),
      Chars("current status"),
      Chars("rag"),
      Chars("rag_status"),
      Chars("rag status"),
      Chars("weekly status"),
      Chars("high level status")
    >>],
   [field |-> "schedule_health", patterns |-> <<
      Chars("schedule_health"),
      Chars("schedule health"),
      Chars("schedule_status"),
      Chars("schedule status"),
      Chars("schedule_rag"),
      Chars("schedule rag"),
      Chars("timeline_status"),
      Chars("timeline status")
    >>],
   [field |-> "budget_health", patterns |-> <<
      Chars("budget_health"),
      Chars("budget health"),
      Chars("budget_status"),
      Chars("budget status"),
      Chars("budget_rag"),
      Chars("budget rag"),
      Chars("cost_status"),
      Chars("cost status"),
      Chars("financial_health")
    >>],
   [field |-> "risk", patterns |-> <<
      Chars("risk_level"),
      Chars("risk level"),
      Chars("risk"),
      Chars("risk_status"),
      Chars("risk status"),
      Chars("risk_rag"),
      Chars("risk rag"),
      Chars("overall_risk"),
      Chars("overall risk"),
      Chars("risk health")
    >>],
   [field |-> "snapshot_date", patterns |-> <<
      Chars("snapshot_date"),
      Chars("snapshot date"),
      Chars("report_date"),
      Chars("report date"),
      Chars("as_of_date"),
      Chars("as of date"),
      Chars("date"),
      Chars("week"),
      Chars("reporting_date")
    >>],
   [field |-> "completion", patterns |-> <<
      Chars("completion_pct"),
      Chars("completion pct"),
      Chars("completion"),
      Chars("percent_complete"),
      Chars("percent complete"),
      Chars("% complete"),
      Chars("pct_complete"),
      Chars("progress"),
      Chars("completion_%"),
      Chars("completion %"),
      Chars("overall % complete"),
      Chars("pct_complete_normalized")
    >>],
   [field |-> "stage", patterns |-> <<
      Chars("stage"),
      Chars("lifecycle"),
      Chars("lifecycle_stage"),
      Chars("delivery_stage"),
      Chars("phase"),
      Chars("wave stage")
    >>],
   [field |-> "owner", patterns |-> <<
      Chars("owner"),
      Chars("project_owner"),
      Chars("project owner"),
      Chars("manager"),
      Chars("project_manager"),
      Chars("project manager"),
      Chars("pm"),
      Chars("responsible"),
      Chars("lead"),
      Chars("it project manager"),
      Chars("initiative owner"),
      Chars("accountable workstream")
    >>],
   [field |-> "strategic_alignment", patterns |-> <<
      Chars("strategic_alignment"),
      Chars("strategic alignment"),
      Chars("strategic goal"),
      Chars("strategy"),
      Chars("strategic_goal"),
      Chars("priority"),
      Chars("prioritization score")
    >>],
   [field |-> "benefits", patterns |-> <<
      Chars("benefit"),
      Chars("benefits"),
      Chars("net recurring benefits"),
      Chars("one-time benefits"),
      Chars("5 yr rev impact"),
      Chars("5 yr cost savings"),
      Chars("benefit quantification")
    >>],
   [field |-> "value_lever", patterns |-> <<
      Chars("value_lever"),
      Chars("value lever"),
      Chars("value_driver"),
      Chars("value driver"),
      Chars("outcome"),
      Chars("business outcome")
    >>],
   [field |-> "approval_date", patterns |-> <<
      Chars("approval_date"),
      Chars("approval date"),
      Chars("approved_date"),
      Chars("approved date"),
      Chars("start_approval")
    >>],
   [field |-> "interdependencies", patterns |-> <<
      Chars("interdependencies"),
      Chars("dependencies"),
      Chars("project interdependencies")
    >>],
   [field |-> "complexity", patterns |-> <<
      Chars("complexity"),
      Chars("it implementation complexity"),
      Chars("implementation complexity")
    >>],
   [field |-> "task", patterns |-> <<
      Chars("task"),
      Chars("task_name"),
      Chars("task name"),
      Chars("activity"),
      Chars("work_item")
    >>],
   [field |-> "resource", patterns |-> <<
      Chars("resource"),
      Chars("user"),
      Chars("assigned_to"),
      Chars("assigned to"),
      Chars("team_member")
    >>]
  >>

\* _detect_columns_for_source on a non-empty table: every field whose column
\* was detected; 'name' only when its column is not the id column
RECURSIVE DetectFrom(_, _, _, _)
DetectFrom(columns, fields, i, detected) ==
  IF i > Len(fields) THEN detected
  ELSE LET Keep(f, d) ==
             /\ d.found
             /\ f = "name" => ~(Has(detected, "id") /\ detected["id"] = d.col)
           With(f, d) == DetectFrom(columns, fields, i + 1, IF Keep(f, d) THEN Put(detected, f, d.col) ELSE detected)
       IN With(fields[i].field, _detect_column(columns, fields[i].patterns))


\* the headers of the tables of the model
SmartsheetColumns == <<Chars("project_id"), Chars("total_budget"), Chars("budget_health"), Chars("schedule_health"), Chars("start_date")>>
WaveColumns == <<Chars("wave #"), Chars("status"), Chars("value_lever"), Chars("approval_date")>>
TickColumns == <<Chars("wave #"), Chars("hours"), Chars("cost")>>
\* a forecast file that names its projects as well
WaveTitledColumns == <<Chars("wave #"), Chars("title"), Chars("status")>>
Headers == <<SmartsheetColumns, SubSeq(SmartsheetColumns, 1, 2), WaveColumns, TickColumns, WaveTitledColumns,
            SubSeq(WaveTitledColumns, 2, 3), <<Chars("project"), Chars("hours")>>>>
\* the column map of each header, computed once: it depends on the header only
ColumnMaps ==
  LET Maps(headers, fields) ==
        << DetectFrom(headers[1], fields, 1, EmptyDict), DetectFrom(headers[2], fields, 1, EmptyDict),
           DetectFrom(headers[3], fields, 1, EmptyDict), DetectFrom(headers[4], fields, 1, EmptyDict),
           DetectFrom(headers[5], fields, 1, EmptyDict), DetectFrom(headers[6], fields, 1, EmptyDict),
           DetectFrom(headers[7], fields, 1, EmptyDict) >>
  IN Maps(Headers, FieldPatterns)

\* _detect_columns_for_source: DetectFrom on the table's header, looked up in
\* ColumnMaps; an empty table gets an empty map
_detect_columns_for_source(df) ==
  LET Of(headers) == ColumnMaps[CHOOSE i \in 1..Len(headers) : headers[i] = df.columns]
  IN IF df.rows = <<>> \/ df.columns = <<>> THEN EmptyDict
     ELSE Of(Headers)

\* ------------------------------------------------------------------------
\* Floats: n/d in lowest terms (the quotients the engine takes are compared
\* with thresholds and with each other, which exact fractions do as the
\* correctly rounded doubles do)
\* ------------------------------------------------------------------------

Abs(n) == IF n < 0 THEN -n ELSE n
RECURSIVE Gcd(_, _)
Gcd(a, b) == IF b = 0 THEN a ELSE Gcd(b, a % b)
\* the float n/d, d # 0
Rat(n, d) ==
  LET g == Gcd(Abs(n), Abs(d))
      s == IF d < 0 THEN -1 ELSE 1
  IN [k |-> "num", v |-> (s * n) \div g, d |-> Abs(d) \div g]
FSub(x, y) == Rat(x.v * y.d - y.v * x.d, x.d * y.d)
FAdd(x, y) == Rat(x.v * y.d + y.v * x.d, x.d * y.d)
FMul(x, y) == Rat(x.v * y.v, x.d * y.d)
FDiv(x, y) == Rat(x.v * y.d, x.d * y.v)
FAbs(x) == [x EXCEPT !.v = Abs(x.v)]
FLt(x, y) == x.v * y.d < y.v * x.d
FLe(x, y) == x.v * y.d <= y.v * x.d
FGt(x, y) == FLt(y, x)
FGe(x, y) == FLe(y, x)

\* ------------------------------------------------------------------------
\* Record Normalizer
\* ------------------------------------------------------------------------


\* str(x) of a cell or of None.  str of a Timestamp is kept as the tagged
\* value [k |-> "datestr"]: the text pandas prints and parses back.
PyStr(x) ==
  CASE x.k = "none" -> Str(Chars("None"))
    [] x.k = "nan" -> Str(Chars("nan"))
    [] x.k = "date" -> [k |-> "datestr", v |-> x.v]
    [] OTHER -> x

\* _normalize_project_id
_normalize_project_id(project_id) ==
  IF IsNa(project_id) THEN None
  ELSE Str(Upper(Strip(PyStr(project_id).v)))


\* _is_valid_project_id
_is_valid_project_id(project_id) ==
  IF project_id.k = "none" THEN FALSE
  ELSE IF project_id.k = "str"
       THEN Upper(Strip(project_id.v)) \notin {<<>>, Chars("UNKNOWN"), Chars("NOT SPECIFIED")}
       ELSE TRUE

Digits == Chars("0123456789")
RECURSIVE DigitsValue(_, _)
DigitsValue(s, acc) ==
  IF s = <<>> THEN acc ELSE DigitsValue(Tail(s), 10 * acc + (CHOOSE i \in 1..Len(Digits) : Digits[i] = Head(s)) - 1)

\* _safe_numeric: None for a missing cell and for whatever float() rejects.
\* float() of a string is modelled for the unsigned decimal integers; any
\* other text counts as rejected.
_safe_numeric(value) ==
  CASE IsNa(value) -> None
    [] value.k = "num" -> value
    [] value.k = "str" ->
         LET Float(t) == IF t # <<>> /\ \A i \in 1..Len(t) : \E d \in 1..Len(Digits) : Digits[d] = t[i]
                         THEN Num(DigitsValue(t, 0)) ELSE None
         IN Float(Strip(Without(value.v, {",", "$"})))
    [] OTHER -> None

\* _safe_date: a Timestamp (a day number), or None.  pd.to_datetime of the
\* text of a Timestamp gives the Timestamp back; any other text the tables of
\* the model hold is no date: the result is NaT or an exception, None either way.
_safe_date(value) ==
  CASE IsNa(value) -> None
    [] value.k = "date" -> value
    [] value.k = "datestr" -> Date(value.v)
    [] OTHER -> None

\* _calculate_variance_pct
_calculate_variance_pct(actual, baseline) ==
  IF baseline.k = "none" \/ (baseline.k = "num" /\ baseline.v = 0) \/ actual.k = "none"
  THEN None
  ELSE FMul(FDiv(FSub(actual, baseline), FAbs(baseline)), Num(100))

\* ------------------------------------------------------------------------
\* Identity Resolver
\* ------------------------------------------------------------------------

Max(S) == CHOOSE x \in S : \A y \in S : y <= x
Min(S) == CHOOSE x \in S : \A y \in S : x <= y

\* difflib.SequenceMatcher.find_longest_match on a[alo..ahi), b[blo..bhi)
\* (0-based, no junk; autojunk needs 200 characters): the longest common
\* block, the earliest in a, and of those the earliest in b
FindLongestMatch(a, b, alo, ahi, blo, bhi) ==
  LET Blocks == {t \in (alo..ahi) \X (blo..bhi) \X (0..(ahi - alo)) :
                   /\ t[1] + t[3] <= ahi
                   /\ t[2] + t[3] <= bhi
                   /\ SubSeq(a, t[1] + 1, t[1] + t[3]) = SubSeq(b, t[2] + 1, t[2] + t[3])}
      k == Max({t[3] : t \in Blocks})
      i == Min({t[1] : t \in {u \in Blocks : u[3] = k}})
      j == Min({t[2] : t \in {u \in Blocks : u[3] = k /\ u[1] = i}})
  IN <<i, j, k>>

\* the summed size of get_matching_blocks
RECURSIVE MatchingSize(_, _, _, _, _, _)
MatchingSize(a, b, alo, ahi, blo, bhi) ==
  LET Around(i, j, k) ==
        IF k = 0 THEN 0
        ELSE k + (IF alo < i /\ blo < j THEN MatchingSize(a, b, alo, i, blo, j) ELSE 0)
               + (IF i + k < ahi /\ j + k < bhi THEN MatchingSize(a, b, i + k, ahi, j + k, bhi) ELSE 0)
      Of(m) == Around(m[1], m[2], m[3])
  IN Of(FindLongestMatch(a, b, alo, ahi, blo, bhi))

\* SequenceMatcher(None, a, b).ratio()
Ratio(a, b) ==
  IF Len(a) + Len(b) = 0 THEN Num(1)
  ELSE Rat(2 * MatchingSize(a, b, 0, Len(a), 0, Len(b)), Len(a) + Len(b))

\* _fuzzy_match_score
_fuzzy_match_score(s1, s2) ==
  IF IsNa(s1) \/ IsNa(s2) THEN Num(0)
  ELSE Ratio(Strip(Lower(PyStr(s1).v)), Strip(Lower(PyStr(s2).v)))

\* ------------------------------------------------------------------------
\* Tables: [k |-> "table", columns |-> <<name, ...>>, rows |-> <<row, ...>>],
\* a row being the sequence of its cells in column order
\* ------------------------------------------------------------------------

Table(columns, rows) == [k |-> "table", columns |-> columns, rows |-> rows]
\* df[col].iloc[r], r counted from 1
Cell(df, r, col) == df.rows[r][CHOOSE i \in 1..Len(df.columns) : df.columns[i] = col]
RowIndices(df) == [i \in 1..Len(df.rows) |-> i]
\* the indices, in table order, of the rows whose normalized key equals the
\* normalized project_id (a comparison with None is False for every row)
KeyRows(df, col, project_id) ==
  LET Equal(target) ==
        SelectSeq(RowIndices(df),
                  LAMBDA r : target.k = "str" /\ _normalize_project_id(Cell(df, r, col)) = target)
  IN Equal(_normalize_project_id(project_id))

\* _safe_get on the selection sel of df's rows
_safe_get(df, sel, column) ==
  IF \A i \in 1..Len(df.columns) : df.columns[i] # column THEN None
  ELSE IF Len(sel) = 0 THEN None
  ELSE LET val == Cell(df, sel[1], column)
       IN IF IsNa(val) THEN None ELSE val


\* the name loop of _get_latest_wave_snapshot: the index of the first row whose
\* score is the highest, when that score is above the threshold; 0 when none is
\* the search that lets an equal score replace the best one
RECURSIVE BestNameMatchLast(_, _, _, _, _, _)
BestNameMatchLast(df, name_col, project_id, r, best_score, best_match_idx) ==
  IF r > Len(df.rows) THEN best_match_idx
  ELSE LET Scored(score) ==
             IF ~FLt(score, best_score)
             THEN BestNameMatchLast(df, name_col, project_id, r + 1, score, r)
             ELSE BestNameMatchLast(df, name_col, project_id, r + 1, best_score, best_match_idx)
       IN Scored(_fuzzy_match_score(project_id, Cell(df, r, name_col)))

RECURSIVE BestNameMatch(_, _, _, _, _, _)
BestNameMatch(df, name_col, project_id, r, best_score, best_match_idx) ==
  IF r > Len(df.rows) THEN best_match_idx
  ELSE LET Scored(score) ==
             IF FGt(score, best_score)
             THEN BestNameMatch(df, name_col, project_id, r + 1, score, r)
             ELSE BestNameMatch(df, name_col, project_id, r + 1, best_score, best_match_idx)
       IN Scored(_fuzzy_match_score(project_id, Cell(df, r, name_col)))

\* the snapshot taken from the first row of equal key instead of the last
_get_first_wave_snapshot(wave_data, wave_cols, project_id) ==
  IF wave_data.k = "none" THEN 0
  ELSE LET First(project_waves) ==
             IF Len(project_waves) > 0 THEN project_waves[1]
             ELSE IF Has(wave_cols, "name")
                  THEN BestNameMatch(wave_data, wave_cols["name"], project_id, 1, Rat(6, 10), 0)
                  ELSE 0
       IN First(IF Has(wave_cols, "wave_num")
                THEN KeyRows(wave_data, wave_cols["wave_num"], project_id)
                ELSE <<>>)

\* _get_latest_wave_snapshot: the index of the row it returns, 0 for None
_get_latest_wave_snapshot(wave_data, wave_cols, project_id) ==
  IF wave_data.k = "none" THEN 0
  ELSE LET Latest(project_waves) ==
             IF Len(project_waves) > 0 THEN project_waves[Len(project_waves)]
             ELSE IF Has(wave_cols, "name")
                  THEN BestNameMatch(wave_data, wave_cols["name"], project_id, 1, Rat(6, 10), 0)
                  ELSE 0
       IN Latest(IF Has(wave_cols, "wave_num")
                 THEN KeyRows(wave_data, wave_cols["wave_num"], project_id)
                 ELSE <<>>)

\* ------------------------------------------------------------------------
\* Project Aggregator
\* ------------------------------------------------------------------------


\* Series.value_counts().to_dict() of the cells of col in the rows sel
ValueCounts(df, sel, col) ==
  LET vals == {Cell(df, sel[i], col) : i \in 1..Len(sel)} \ {NaN}
  IN [val \in vals |-> Cardinality({i \in 1..Len(sel) : Cell(df, sel[i], col) = val})]

\* _get_wave_trends: the trends dict, or None
_get_wave_trends(wave_data, wave_cols, project_id) ==
  IF wave_data.k = "none" THEN None
  ELSE IF ~Has(wave_cols, "wave_num") THEN None
  ELSE
    LET Deteriorated(lastTwo) == Chars("red") \in lastTwo \/ Chars("delayed") \in lastTwo
        Trends(project_waves, n, status_col) ==
          IF n < 2 THEN None
          ELSE UpdateAll([snapshot_count |-> Num(n), date_range |-> EmptyDict],
                 << Under(Has(wave_cols, "status"),
                      [status_distribution |-> ValueCounts(wave_data, project_waves, status_col)]),
                    Under(/\ Has(wave_cols, "status")
                          /\ Deteriorated({Lower(PyStr(Cell(wave_data, project_waves[i], status_col)).v) :
                                             i \in {n - 1, n}}),
                      [recent_deterioration |-> Bool(TRUE)]) >>)
        Of(project_waves) == Trends(project_waves, Len(project_waves), wave_cols["status"])
    IN Of(KeyRows(wave_data, wave_cols["wave_num"], project_id))

\* fillna(0).sum() of the cells of col in the rows sel, as a float
RECURSIVE SumCells(_, _, _, _)
SumCells(df, sel, col, i) ==
  IF i > Len(sel) THEN Num(0)
  ELSE LET c == Cell(df, sel[i], col)
       IN FAdd(IF c.k = "num" THEN c ELSE Num(0), SumCells(df, sel, col, i + 1))

\* the keys of a column map that contain 'date', in the order
\* _detect_columns_for_source inserts them
DateKeys == <<"start_date", "finish_date", "snapshot_date", "approval_date">>

\* pd.to_datetime(column, errors='coerce').dropna() over the rows sel
DatesOf(df, sel, col) ==
  {_safe_date(Cell(df, sel[i], col)).v :
     i \in {j \in 1..Len(sel) : _safe_date(Cell(df, sel[j], col)).k = "date"}}

\* the work dates of the first date column that holds a date
RECURSIVE WorkDates(_, _, _, _, _)
WorkDates(df, cols, sel, i, actuals) ==
  IF i > Len(DateKeys) THEN actuals
  ELSE IF ~Has(cols, DateKeys[i]) THEN WorkDates(df, cols, sel, i + 1, actuals)
  ELSE LET Span(dates) ==
             IF dates = {} THEN WorkDates(df, cols, sel, i + 1, actuals)
             ELSE Update(actuals,
                    [work_start_date |-> [k |-> "datestr", v |-> Min(dates)],
                     work_end_date |-> [k |-> "datestr", v |-> Max(dates)],
                     work_span_days |-> Num(Max(dates) - Min(dates))])
       IN Span(DatesOf(df, sel, cols[DateKeys[i]]))

\* the rows _get_tick_actuals sums: by the shared key when the tick table
\* has a wave column, else the rows whose id is one of the distinct ids
\* that score above the threshold
TickRows(tick_data, tick_cols, project_id) ==
  IF Has(tick_cols, "wave_num")
  THEN KeyRows(tick_data, tick_cols["wave_num"], project_id)
  ELSE IF Has(tick_cols, "id")
  THEN LET id_col == tick_cols["id"]
           Matches(r) == FGt(_fuzzy_match_score(project_id, Cell(tick_data, r, id_col)),
                             Rat(6, 10))
       IN SelectSeq(RowIndices(tick_data), Matches)
  ELSE <<>>

\* _get_tick_actuals: the actuals dict, or None
_get_tick_actuals(tick_data, tick_cols, project_id) ==
  IF tick_data.k = "none" THEN None
  ELSE
    LET Hours(project_ticks) ==
          IF Has(tick_cols, "actual_hours")
          THEN [total_hours |-> SumCells(tick_data, project_ticks, tick_cols["actual_hours"], 1)]
          ELSE Under(Has(tick_cols, "hours"),
                 [total_hours |-> SumCells(tick_data, project_ticks, tick_cols["hours"], 1)])
        Resources(project_ticks, userCols) ==
          Under(Len(userCols) > 0,
            [unique_resources |->
               Num(Cardinality({Cell(tick_data, project_ticks[i], userCols[1]) :
                                  i \in 1..Len(project_ticks)} \ {NaN}))])
        Actuals(project_ticks) ==
          IF Len(project_ticks) = 0 THEN None
          ELSE WorkDates(tick_data, tick_cols, project_ticks, 1,
                 UpdateAll([transaction_count |-> Num(Len(project_ticks))],
                   << Hours(project_ticks),
                      Under(Has(tick_cols, "actual_cost"),
                        [total_cost |-> SumCells(tick_data, project_ticks, tick_cols["actual_cost"], 1)]),
                      Resources(project_ticks,
                                SelectSeq(tick_data.columns, LAMBDA c : Lower(c) = Chars("user"))) >>))
    IN Actuals(TickRows(tick_data, tick_cols, project_id))

\* ------------------------------------------------------------------------
\* Derived Metrics Calculator
\* ------------------------------------------------------------------------

\* x and x > 0, for x a float or None
Positive(x) == x.k = "num" /\ x.v > 0

\* _calculate_derived_metrics
_calculate_derived_metrics(baseline, wave, actuals) ==
  LET Schedule(baseline_end, forecast_end) ==
        Under(baseline_end.k = "date" /\ forecast_end.k = "date",
          [schedule_variance_days |-> Num(forecast_end.v - baseline_end.v)])
      Remaining(remaining_budget) ==
        Update([remaining_budget |-> remaining_budget],
               Under(remaining_budget.v < 0, [budget_overrun |-> Bool(TRUE)]))
      Derived(baseline_budget, actual_cost, eac, work_span_days) ==
        UpdateAll(EmptyDict,
          << Under(Positive(baseline_budget) /\ Positive(actual_cost),
               [cost_variance_pct |-> _calculate_variance_pct(actual_cost, baseline_budget),
                cost_variance_amount |-> FSub(actual_cost, baseline_budget)]),
             Under(Positive(baseline_budget) /\ Positive(eac),
               [eac_variance_pct |-> _calculate_variance_pct(eac, baseline_budget),
                eac_variance_amount |-> FSub(eac, baseline_budget)]),
             Schedule(_safe_date(Get(baseline, "baseline_finish", None)),
                      _safe_date(IF NonEmpty(wave) THEN Get(wave, "forecast_finish", None) ELSE None)),
             Under(Positive(actual_cost) /\ Truthy(work_span_days) /\ Positive(work_span_days),
               [daily_burn_rate |-> FDiv(actual_cost, work_span_days)]),
             IF NonEmpty(wave)
             THEN [completion_pct |-> Get(wave, "completion_pct", None)]
             ELSE Under(Truthy(Get(baseline, "completion_pct", None)),
                    [completion_pct |-> baseline["completion_pct"]]),
             IF Truthy(baseline_budget) /\ Truthy(actual_cost)
             THEN Remaining(FSub(baseline_budget, actual_cost))
             ELSE EmptyDict >>)
  IN Derived(Get(baseline, "total_budget", None), Get(actuals, "total_cost", None),
             Get(baseline, "eac", None), Get(actuals, "work_span_days", None))

\* ------------------------------------------------------------------------
\* Consistency Rule Evaluator
\* ------------------------------------------------------------------------

\* a rule violation; the description is the f-string's values
Violation(rule, severity, description, recommendation) ==
  [rule |-> rule, severity |-> severity, description |-> description,
   recommendation |-> recommendation]

\* the rule that is never recorded
WhenNever(cond, item) == <<>>
When(cond, item) == IF cond THEN <<item>> ELSE <<>>

\* _evaluate_consistency_rules
_evaluate_consistency_rules(project_data) ==
  LET baseline == project_data["baseline_metrics"]
      wave == project_data["latest_wave_snapshot"]
      actuals == project_data["actuals_summary"]
      derived == project_data["derived_metrics"]
      status == Lower(PyStr(Get(wave, "status", Str(<<>>))).v)
      cost_variance == Get(derived, "cost_variance_pct", None)
      baseline_budget == Get(baseline, "total_budget", None)
      actual_cost == Get(actuals, "total_cost", None)
      completion_pct == Get(derived, "completion_pct", None)
      projected_total == FDiv(actual_cost, FDiv(completion_pct, Num(100)))
      schedule_variance == Get(derived, "schedule_variance_days", None)
      schedule_health == IF Truthy(Get(baseline, "schedule_health", None))
                         THEN Lower(baseline["schedule_health"].v) ELSE <<>>
      actual_hours == Get(actuals, "total_hours", None)
      baseline_hours == Get(baseline, "planned_hours", None)
      implied_completion == FMul(FDiv(actual_hours, baseline_hours), Num(100))
  IN When(/\ NonEmpty(wave)
          /\ Contains(status, Chars("green")) \/ Contains(status, Chars("on track"))
          /\ Truthy(cost_variance)
          /\ FLt(cost_variance, Num(-10)),
          Violation("status_cost_mismatch", "warning",
                    <<Get(wave, "status", None), cost_variance>>,
                    "Review status accuracy or investigate cost drivers"))
     \o
     When(/\ NonEmpty(baseline) /\ NonEmpty(actuals)
          /\ Positive(baseline_budget) /\ Positive(actual_cost) /\ Positive(completion_pct)
          /\ FGt(projected_total, FMul(baseline_budget, Rat(12, 10))),
          Violation("burn_rate_overrun", "critical",
                    <<projected_total, baseline_budget>>,
                    "Immediate budget review required"))
     \o
     When(/\ Truthy(schedule_variance)
          /\ FGt(schedule_variance, Num(30))
          /\ Contains(schedule_health, Chars("green")) \/ Contains(schedule_health, Chars("on track")),
          Violation("schedule_health_mismatch", "warning",
                    <<schedule_variance, Get(baseline, "schedule_health", None)>>,
                    "Update schedule health indicator"))
     \o
     When(/\ NonEmpty(wave) /\ IsEmpty(actuals)
          /\ \/ Contains(status, Chars("active"))
             \/ Contains(status, Chars("in progress"))
             \/ Contains(status, Chars("green")),
          Violation("missing_actuals", "info", <<>>,
                    "Verify project has started or update status"))
     \o
     When(/\ NonEmpty(baseline) /\ NonEmpty(actuals)
          /\ Positive(baseline_hours) /\ Positive(actual_hours) /\ Truthy(completion_pct)
          /\ FGt(FAbs(FSub(completion_pct, implied_completion)), Num(20)),
          Violation("completion_effort_mismatch", "warning",
                    <<completion_pct, implied_completion>>,
                    "Reconcile completion % with actual effort"))

\* ------------------------------------------------------------------------
\* Assessment Generator
\* ------------------------------------------------------------------------

\* the lexicon of _classify_health
HealthScore(x) ==
  IF ~Truthy(x) THEN 2
  ELSE LET Score(key) ==
             CASE key \in {Chars("green"), Chars("on track"), Chars("low")} -> 3
               [] key \in {Chars("yellow"), Chars("at risk"),
                           Chars("medium")} -> 2
               [] key \in {Chars("red"), Chars("delayed"), Chars("high")} -> 1
               [] OTHER -> 2
       IN Score(Strip(Lower(PyStr(x).v)))

\* _classify_health: the average of the three scores against 2.5 and 1.5
\* the classification that counts the schedule twice
_classify_health_weighted(schedule_health, budget_health, risk_level) ==
  LET Class(avg_score) ==
        IF FGe(avg_score, Rat(25, 10)) THEN "On Track"
        ELSE IF FGe(avg_score, Rat(15, 10)) THEN "At Risk"
        ELSE "Delayed"
  IN Class(Rat(2 * HealthScore(schedule_health) + HealthScore(budget_health)
               + HealthScore(risk_level), 4))

_classify_health(schedule_health, budget_health, risk_level) ==
  LET Class(avg_score) ==
        IF FGe(avg_score, Rat(25, 10)) THEN "On Track"
        ELSE IF FGe(avg_score, Rat(15, 10)) THEN "At Risk"
        ELSE "Delayed"
  IN Class(Rat(HealthScore(schedule_health) + HealthScore(budget_health)
               + HealthScore(risk_level), 3))

\* one generated sentence: its fixed text and the values formatted into it
Line(text, args) == [text |-> text, args |-> args]
\* a fixed word formatted into a sentence
Label(word) == [k |-> "label", v |-> word]

FirstThree(s) == SubSeq(s, 1, IF Len(s) < 3 THEN Len(s) ELSE 3)
\* a variant of the fallback that leaves an empty list empty
OrNothing(s, sentinel) == s
\* s if s else [sentinel]
OrElse(s, sentinel) == IF Len(s) > 0 THEN s ELSE <<Line(sentinel, <<>>)>>

\* _generate_summary
_generate_summary(status, baseline, wave, actuals, derived, rules) ==
  LET cost_var == Get(derived, "cost_variance_pct", None)
      schedule_var == Get(derived, "schedule_variance_days", None)
      critical_rules == SelectSeq(rules, LAMBDA r : r.severity = "critical")
      second ==
        IF Truthy(cost_var) /\ FGt(FAbs(cost_var), Num(10))
        THEN Line("Cost variance indicates",
                  <<cost_var, Label(IF FLt(cost_var, Num(0)) THEN "overrun" ELSE "underrun")>>)
        ELSE IF Truthy(schedule_var) /\ FGt(FAbs(schedule_var), Num(15))
        THEN Line("Schedule variance shows",
                  <<schedule_var, Label(IF FGt(schedule_var, Num(0)) THEN "delay" ELSE "acceleration")>>)
        ELSE IF NonEmpty(actuals)
        THEN Line("Execution tracking shows hours logged", <<Get(actuals, "total_hours", Num(0))>>)
        ELSE Line("Limited execution data available for detailed analysis.", <<>>)
      parts == <<Line("Project classified", <<Label(status)>>), second>>
               \o When(Len(critical_rules) > 0,
                       Line("Critical issue", IF Len(critical_rules) > 0
                                              THEN critical_rules[1].description ELSE <<>>))
  IN FirstThree(parts)

\* line 726 calls .lower() on baseline.get('budget_health', ''): the key is
\* present with the value None when the cell is empty, and None has no lower
AssessmentRaises(baseline) ==
  Has(baseline, "budget_health") /\ baseline["budget_health"].k # "str"

\* _generate_project_assessment, when it returns
_generate_project_assessment(project_data, now) ==
  LET metadata == project_data["project_metadata"]
      baseline == project_data["baseline_metrics"]
      wave == project_data["latest_wave_snapshot"]
      actuals == project_data["actuals_summary"]
      derived == project_data["derived_metrics"]
      rules == project_data["rule_evaluations"]
      trends == project_data["wave_trends"]
      status == _classify_health(Get(baseline, "schedule_health", None),
                                 Get(baseline, "budget_health", None),
                                 Get(baseline, "risk_level", None))
      data_completeness == (IF NonEmpty(baseline) THEN 1 ELSE 0)
                           + (IF NonEmpty(wave) THEN 1 ELSE 0)
                           + (IF NonEmpty(actuals) THEN 1 ELSE 0)
      confidence == IF data_completeness = 3 THEN "High"
                    ELSE IF data_completeness = 2 THEN "Medium" ELSE "Low"
      cost_var == Get(derived, "cost_variance_pct", None)
      schedule_var == Get(derived, "schedule_variance_days", None)
      drivers ==
        When(Truthy(cost_var) /\ FLt(cost_var, Num(-10)),
             Line("Cost overrun: over baseline budget", <<FAbs(cost_var)>>))
        \o When(Truthy(cost_var) /\ ~FLt(cost_var, Num(-10)) /\ FGt(cost_var, Num(10)),
                Line("Cost underrun: under baseline budget", <<cost_var>>))
        \o When(Truthy(schedule_var) /\ FGt(schedule_var, Num(0)),
                Line("Schedule delay: days behind baseline", <<schedule_var>>))
        \o When(Truthy(schedule_var) /\ FLt(schedule_var, Num(0)),
                Line("Schedule ahead: days ahead of baseline", <<FAbs(schedule_var)>>))
        \o When(Truthy(Get(derived, "daily_burn_rate", None)),
                Line("Daily burn rate", <<Get(derived, "daily_burn_rate", None)>>))
      observations ==
        When(NonEmpty(wave) /\ NonEmpty(actuals),
             Line("Wave reports status", <<Get(wave, "status", Str(Chars("unknown")))>>))
        \o When(NonEmpty(wave) /\ NonEmpty(actuals) /\ Truthy(Get(actuals, "total_cost", None)),
                Line("Tick shows actual cost incurred", <<Get(actuals, "total_cost", None)>>))
        \o When(NonEmpty(trends) /\ Truthy(Get(trends, "recent_deterioration", None)),
                Line("Wave data shows recent status deterioration", <<>>))
        \o When(IsEmpty(actuals) /\ NonEmpty(baseline),
                Line("No execution data (Tick) found - project may not have started", <<>>))
      severe == SelectSeq(rules, LAMBDA r : r.severity \in {"critical", "warning"})
      risks == [i \in 1..Len(severe) |->
                  Line(severe[i].rule, <<Label(severe[i].severity)>> \o severe[i].description)]
      positives ==
        When(Truthy(cost_var) /\ FGe(cost_var, Num(0)),
             Line("Cost tracking within or under budget", <<>>))
        \o When(Truthy(schedule_var) /\ FLe(schedule_var, Num(0)),
                Line("Schedule on track or ahead", <<>>))
        \o When(Lower(Get(baseline, "budget_health", Str(<<>>)).v) = Chars("green"),
                Line("Budget health marked as green", <<>>))
      gaps ==
        When(IsEmpty(baseline), Line("Missing Smartsheet baseline data", <<>>))
        \o When(IsEmpty(wave), Line("Missing Wave forecast/status data", <<>>))
        \o When(IsEmpty(actuals), Line("Missing Tick actual execution data", <<>>))
        \o When(~Truthy(cost_var),
                Line("Cannot calculate cost variance - missing budget or actuals", <<>>))
        \o When(~Truthy(schedule_var),
                Line("Cannot calculate schedule variance - missing dates", <<>>))
      recommendations == [i \in 1..Len(rules) |-> Line(rules[i].recommendation, <<>>)]
  IN [project_id |-> Get(metadata, "project_id", None),
      project_name |-> Get(metadata, "project_name", None),
      timestamp |-> now,
      overall_assessment |->
        [status |-> status,
         health |-> Get(baseline, "budget_health", Str(Chars("Unknown"))),
         confidence_level |-> confidence,
         data_sources_available |-> data_completeness,
         summary |-> _generate_summary(status, baseline, wave, actuals, derived, rules)],
      key_drivers |-> OrElse(FirstThree(drivers), "Insufficient data for key drivers"),
      cross_source_observations |->
        OrElse(observations, "Single source data - limited cross-validation"),
      risks_warnings |-> OrElse(risks, "No significant risks detected"),
      positive_signals |-> OrElse(positives, "No strong positive signals identified"),
      data_gaps |-> OrElse(gaps, "Complete data from all three sources"),
      recommendations |-> OrElse(FirstThree(recommendations),
                                 "Continue monitoring with current data")]

\* ------------------------------------------------------------------------
\* analyze_project
\* ------------------------------------------------------------------------

\* baseline_metrics of the first row of df whose key matches, from the
\* columns the map detected
BaselineMetrics(df, cols, sel) ==
  LET row(col) == Cell(df, sel[1], col)
      Known(key, val) == Under(val.k # "none", [x \in {key} |-> val])
      date(field, key) ==
        Under(Has(cols, field), [x \in {key} |-> PyStr(_safe_date(row(cols[field])))])
      numeric(field, key) ==
        IF Has(cols, field) THEN Known(key, _safe_numeric(row(cols[field]))) ELSE EmptyDict
      got(field, key) ==
        Under(Has(cols, field), [x \in {key} |-> _safe_get(df, sel, cols[field])])
  IN UpdateAll(EmptyDict,
       << date("start_date", "baseline_start"),
          date("finish_date", "baseline_finish"),
          numeric("budget", "total_budget"),
          numeric("capex", "capex"),
          numeric("opex", "opex"),
          numeric("eac", "eac"),
          numeric("hours", "planned_hours"),
          got("schedule_health", "schedule_health"),
          got("budget_health", "budget_health"),
          got("risk", "risk_level"),
          got("owner", "owner"),
          got("strategic_alignment", "strategic_alignment"),
          got("benefits", "benefits"),
          numeric("completion", "completion_pct"),
          got("stage", "stage"),
          got("interdependencies", "interdependencies") >>)

\* wave_snapshot of row r of df
WaveSnapshot(df, cols, r) ==
  LET cell(field) == IF Has(cols, field) THEN Cell(df, r, cols[field]) ELSE None
      Known(key, val) == Under(val.k # "none", [x \in {key} |-> val])
      date(field) == Under(Has(cols, field), [x \in {field} |-> PyStr(_safe_date(cell(field)))])
      text(field) == Under(Has(cols, field), [x \in {field} |-> PyStr(cell(field))])
      numeric(field, key) ==
        IF Has(cols, field) THEN Known(key, _safe_numeric(cell(field))) ELSE EmptyDict
  IN UpdateAll(EmptyDict,
       << date("snapshot_date"),
          text("status"),
          text("stage"),
          date("forecast_finish"),
          numeric("completion", "completion_pct"),
          text("complexity"),
          text("owner"),
          numeric("budget", "budget"),
          text("value_lever"),
          date("approval_date") >>)

\* the loaded sources as analyze_project reads them
Sources(sm, smc, wv, wvc, tk, tkc) ==
  [smartsheet_data |-> sm, smartsheet_cols |-> smc, wave_data |-> wv, wave_cols |-> wvc,
   tick_data |-> tk, tick_cols |-> tkc]

\* analyze_project(project_id) at time now on the sources src: whether it
\* raises, and the project_data it otherwise stores and returns
analyze_project(src, project_id, now) ==
  LET OrEmpty(d) == IF d = None THEN EmptyDict ELSE d
      Assessed(project_data) ==
        [raised |-> FALSE,
         data |-> Update(project_data,
                    [assessment |-> _generate_project_assessment(project_data, now)])]
      Evaluated(project_data) ==
        Assessed([project_data EXCEPT !.rule_evaluations = _evaluate_consistency_rules(project_data)])
      Combined(metadata, baseline_metrics, wave_snapshot, wave_trends, actuals_summary) ==
        IF AssessmentRaises(baseline_metrics) THEN [raised |-> TRUE]
        ELSE Evaluated(
               [project_metadata |-> metadata,
                baseline_metrics |-> baseline_metrics,
                latest_wave_snapshot |-> wave_snapshot,
                wave_trends |-> wave_trends,
                actuals_summary |-> actuals_summary,
                derived_metrics |->
                  _calculate_derived_metrics(baseline_metrics, wave_snapshot, actuals_summary),
                rule_evaluations |-> <<>>])
      Named(project_smartsheet) ==
        Under(Len(project_smartsheet) > 0,
          [project_name |->
             IF Has(src.smartsheet_cols, "name")
             THEN _safe_get(src.smartsheet_data, project_smartsheet, src.smartsheet_cols["name"])
             ELSE project_id])
      Snapshot(latest_wave) ==
        IF latest_wave # 0 THEN WaveSnapshot(src.wave_data, src.wave_cols, latest_wave)
        ELSE EmptyDict
      From(project_smartsheet) ==
        Combined(Update([project_id |-> project_id, analysis_timestamp |-> now],
                        Named(project_smartsheet)),
                 IF Len(project_smartsheet) > 0
                 THEN BaselineMetrics(src.smartsheet_data, src.smartsheet_cols, project_smartsheet)
                 ELSE EmptyDict,
                 Snapshot(_get_latest_wave_snapshot(src.wave_data, src.wave_cols, project_id)),
                 OrEmpty(_get_wave_trends(src.wave_data, src.wave_cols, project_id)),
                 OrEmpty(_get_tick_actuals(src.tick_data, src.tick_cols, project_id)))
  IN From(IF src.smartsheet_data.k # "none" /\ Has(src.smartsheet_cols, "id")
          THEN KeyRows(src.smartsheet_data, src.smartsheet_cols["id"], project_id)
          ELSE <<>>)

\* ------------------------------------------------------------------------
\* Formula-Based Insight Engine
\* ------------------------------------------------------------------------

\* the integer nearest to n/d (d > 0), a tie going to the even one
RoundHalfEven(n, d) ==
  LET q == n \div d
      r == n % d
  IN IF 2 * r < d THEN q
     ELSE IF 2 * r > d THEN q + 1
     ELSE IF q % 2 = 0 THEN q ELSE q + 1
\* f"{x:.1f}" and f"{x:.0f}": the text, as the number of tenths or of units it shows
Fmt(x, decimals) ==
  [k |-> "fmt", v |-> RoundHalfEven(x.v * (IF decimals = 1 THEN 10 ELSE 1), x.d),
   decimals |-> decimals]

\* a sentence with nothing formatted into it
Text(text) == Line(text, <<>>)
\* a or b
Or(a, b) == IF Truthy(a) THEN a ELSE b
\* sum() of a list of numbers
RECURSIVE FSum(_)
FSum(s) == IF s = <<>> THEN Num(0) ELSE FAdd(Head(s), FSum(Tail(s)))
\* sorted(s, key=..., reverse=...): keys[i] is the key of s[i]; elements with
\* equal keys keep their order, under reverse=True too
StableSort(s, keys, reverse) ==
  LET Before(i, j) == IF reverse THEN FGt(keys[i], keys[j]) ELSE FLt(keys[i], keys[j])
      Position(i) ==
        1 + Cardinality({j \in 1..Len(s) :
                           \/ Before(j, i)
                           \/ ~Before(i, j) /\ j < i})
  IN [p \in 1..Len(s) |-> s[CHOOSE i \in 1..Len(s) : Position(i) = p]]
\* sorted(s, key=lambda x: x[field], reverse=reverse)
SortedByField(s, field, reverse) == StableSort(s, [i \in 1..Len(s) |-> s[i][field]], reverse)

\* the items of self.projects that pass `if not self._is_valid_project_id(proj_id): continue`
ValidItems(prj) == SelectSeq(prj, LAMBDA it : _is_valid_project_id(it.key))
\* proj_data['project_metadata'].get('project_name')
ProjectName(proj_data) == Get(proj_data["project_metadata"], "project_name", None)
\* bool(value_lever and str(value_lever).strip() and str(value_lever).lower() != 'none')
HasValueLever(value_lever) ==
  /\ Truthy(value_lever)
  /\ Strip(PyStr(value_lever).v) # <<>>
  /\ Lower(PyStr(value_lever).v) # Chars("none")
\* x.lower() where x may be anything: None and numbers have no lower
LowerRaises(x) == x.k # "str"

\* a reference to an object of the heap
Ref(a) == [k |-> "ref", v |-> a]
\* the three persona lists, the objects their insights refer to (the metrics
\* dict and the data_sources_used list of each dict literal), and whether a
\* formula has raised
NoInsights ==
  [executive_insights |-> <<>>, vp_insights |-> <<>>, manager_insights |-> <<>>,
   objects |-> <<>>, raised |-> FALSE]
\* an insight dict literal; data_sources_used is the set of the list's
\* elements (the order of list(a_set) depends on the hash seed)
Insight(category, title, severity, description, impact, recommendation, metrics, formula_used, data_sources_used, project_id, confidence) ==
  [category |-> category, title |-> title, severity |-> severity,
   description |-> description, impact |-> impact, recommendation |-> recommendation,
   metrics |-> metrics, formula_used |-> formula_used,
   data_sources_used |-> data_sources_used, project_id |-> project_id,
   confidence |-> confidence]
\* self.<persona>_insights.append({...}): the literal makes a new dict, a new
\* metrics dict and a new data_sources_used list
AppendInsight(st, persona, insight) ==
  LET a == Len(st.objects)
      stored == [insight EXCEPT !.metrics = Ref(a + 1), !.data_sources_used = Ref(a + 2)]
  IN [st EXCEPT ![persona] = Append(@, stored),
                !.objects = @ \o <<insight.metrics, insight.data_sources_used>>]
\* self.<to>_insights.append(self.<from>_insights[-1].copy()): dict.copy() is
\* shallow, the copy refers to the same metrics dict and the same list
AppendCopyOfLast(st, from, to) ==
  [st EXCEPT ![to] = Append(@, st[from][Len(st[from])])]


\* _formula_value_leakage_index
_formula_value_leakage_index(st, prj) ==
  LET items == ValidItems(prj)
      Effort(pd) == Or(Or(Get(pd["actuals_summary"], "total_hours", None),
                          Get(pd["actuals_summary"], "total_cost", None)),
                       Get(pd["baseline_metrics"], "total_budget", None))
      counted == SelectSeq(items, LAMBDA it : Positive(Effort(it.val)))
      Raises(pd) == /\ NonEmpty(pd["baseline_metrics"])
                    /\ LowerRaises(Get(pd["baseline_metrics"], "schedule_health", Str(<<>>)))
      status(pd) == IF NonEmpty(pd["latest_wave_snapshot"])
                    THEN Lower(Get(pd["latest_wave_snapshot"], "status", Str(<<>>)).v)
                    ELSE <<>>
      smartsheet_status(pd) ==
        IF NonEmpty(pd["baseline_metrics"])
        THEN Lower(Get(pd["baseline_metrics"], "schedule_health", Str(<<>>)).v)
        ELSE <<>>
      is_stalled(pd) == \/ Contains(status(pd), Chars("stalled"))
                        \/ Contains(smartsheet_status(pd), Chars("red"))
                        \/ Contains(status(pd), Chars("delayed"))
      value_lever(pd) == IF NonEmpty(pd["latest_wave_snapshot"])
                         THEN Get(pd["latest_wave_snapshot"], "value_lever", None)
                         ELSE None
      has_no_value_lever(pd) ==
        \/ ~Truthy(value_lever(pd))
        \/ Strip(PyStr(value_lever(pd)).v) = <<>>
        \/ Lower(PyStr(value_lever(pd)).v) = Chars("none")
      leaking == SelectSeq(counted, LAMBDA it : has_no_value_lever(it.val) \/ is_stalled(it.val))
      total_effort == FSum([i \in 1..Len(counted) |-> Effort(counted[i].val)])
      leakage_effort == FSum([i \in 1..Len(leaking) |-> Effort(leaking[i].val)])
      leakage_projects ==
        [i \in 1..Len(leaking) |->
           [project_id |-> leaking[i].key,
            project_name |-> ProjectName(leaking[i].val),
            effort |-> Effort(leaking[i].val),
            reason |-> IF has_no_value_lever(leaking[i].val)
                       THEN "No value lever" ELSE "Stalled status"]]
      data_sources_available ==
        {s \in {"tick", "wave", "smartsheet"} :
           \E i \in 1..Len(counted) :
             \/ s = "tick" /\ NonEmpty(counted[i].val["actuals_summary"])
             \/ s = "wave" /\ NonEmpty(counted[i].val["latest_wave_snapshot"])
             \/ s = "smartsheet" /\ NonEmpty(counted[i].val["baseline_metrics"])}
      leakage_pct == FMul(FDiv(leakage_effort, total_effort), Num(100))
      confidence == IF Cardinality(data_sources_available) >= 2 THEN "High" ELSE "Medium"
  IN IF \E i \in 1..Len(counted) : Raises(counted[i].val) THEN [st EXCEPT !.raised = TRUE]
     ELSE IF Positive(total_effort) /\ Cardinality(data_sources_available) >= 1
             /\ FGt(leakage_pct, Num(20))
     THEN AppendCopyOfLast(
            AppendInsight(st, "executive_insights",
              Insight("value_leakage",
                      Line("Value Leakage Index: % Portfolio Effort at Risk",
                           <<Fmt(leakage_pct, 1)>>),
                      "critical",
                      Line("% of portfolio effort/cost is on projects with no clear value lever or stalled status",
                           <<Fmt(leakage_pct, 1)>>),
                      Line("$K effort potentially not delivering value",
                           <<Fmt(FDiv(leakage_effort, Num(1000)), 0)>>),
                      Text("Review value mapping for all projects and address stalled initiatives"),
                      [leakage_pct |-> leakage_pct,
                       leakage_effort |-> leakage_effort,
                       total_effort |-> total_effort,
                       leakage_project_count |-> Len(leakage_projects),
                       top_contributors |-> leakage_projects],
                      "Value Leakage % = (Effort on no-value/stalled projects) / Total Effort",
                      data_sources_available, None, confidence)),
            "executive_insights", "vp_insights")
     ELSE st

\* _formula_strategy_execution_coverage
_formula_strategy_execution_coverage(st, prj) ==
  LET items == ValidItems(prj)
      initiatives == SelectSeq(items, LAMBDA it : NonEmpty(it.val["latest_wave_snapshot"]))
      has_smartsheet(pd) == NonEmpty(pd["baseline_metrics"])
      has_tick(pd) == /\ NonEmpty(pd["actuals_summary"])
                      /\ Truthy(Get(pd["actuals_summary"], "total_hours", None))
      covered == SelectSeq(initiatives, LAMBDA it : has_smartsheet(it.val) /\ has_tick(it.val))
      uncovered == SelectSeq(initiatives, LAMBDA it : ~(has_smartsheet(it.val) /\ has_tick(it.val)))
      uncovered_initiatives ==
        [i \in 1..Len(uncovered) |->
           [project_id |-> uncovered[i].key,
            project_name |-> ProjectName(uncovered[i].val),
            missing |-> IF ~has_smartsheet(uncovered[i].val) THEN "Smartsheet" ELSE "Tick hours"]]
      total_wave_initiatives == Len(initiatives)
      covered_initiatives == Len(covered)
      data_sources_available ==
        {s \in {"tick", "wave", "smartsheet"} :
           \E i \in 1..Len(initiatives) :
             \/ s = "wave"
             \/ s = "smartsheet" /\ has_smartsheet(initiatives[i].val)
             \/ s = "tick" /\ has_tick(initiatives[i].val)}
      coverage_pct == FMul(Rat(covered_initiatives, total_wave_initiatives), Num(100))
      confidence == IF Cardinality(data_sources_available) = 3 THEN "High" ELSE "Low"
      metrics == [coverage_pct |-> coverage_pct,
                  covered_count |-> covered_initiatives,
                  total_count |-> total_wave_initiatives,
                  uncovered_initiatives |-> uncovered_initiatives]
      formula == "Coverage % = Initiatives with (Smartsheet AND Tick) / Total Wave initiatives"
  IN IF total_wave_initiatives > 0 /\ "wave" \in data_sources_available
     THEN IF FLt(coverage_pct, Num(60))
          THEN AppendInsight(st, "executive_insights",
                 Insight("strategic_alignment",
                         Line("Strategy-Execution Coverage: Only % Fully Linked",
                              <<Fmt(coverage_pct, 1)>>),
                         "critical",
                         Line("Only of Wave initiatives have both Smartsheet baseline and Tick execution data",
                              <<covered_initiatives, total_wave_initiatives>>),
                         Text("Strategic initiatives not fully traceable from plan to execution"),
                         Text("Establish full traceability for all Wave initiatives through Smartsheet and Tick"),
                         metrics, formula, data_sources_available, None, confidence))
          ELSE IF FLt(coverage_pct, Num(80))
          THEN AppendInsight(st, "vp_insights",
                 Insight("strategic_alignment",
                         Line("Strategy-Execution Coverage: % Linked", <<Fmt(coverage_pct, 1)>>),
                         "warning",
                         Line("of Wave initiatives have full traceability",
                              <<covered_initiatives, total_wave_initiatives>>),
                         Text("Some strategic initiatives lack complete tracking"),
                         Text("Improve data linkage for remaining initiatives"),
                         metrics, formula, data_sources_available, None, confidence))
          ELSE st
     ELSE st

\* _formula_top_bottom_analysis
_formula_top_bottom_analysis(st, prj) ==
  LET items == ValidItems(prj)
      Effort(pd) == Or(Get(pd["actuals_summary"], "total_hours", None),
                       Get(pd["actuals_summary"], "total_cost", None))
      Progress(pd) == Or(Get(pd["derived_metrics"], "completion_pct", None),
                         Get(pd["baseline_metrics"], "completion_pct", None))
      value_lever(pd) == IF NonEmpty(pd["latest_wave_snapshot"])
                         THEN Get(pd["latest_wave_snapshot"], "value_lever", None)
                         ELSE None
      counted == SelectSeq(items, LAMBDA it : Positive(Effort(it.val)))
      projects_with_data ==
        [i \in 1..Len(counted) |->
           [project_id |-> counted[i].key,
            project_name |-> ProjectName(counted[i].val),
            effort |-> Effort(counted[i].val),
            progress |-> IF Truthy(Progress(counted[i].val))
                         THEN Progress(counted[i].val) ELSE Num(0),
            has_value_lever |-> HasValueLever(value_lever(counted[i].val))]]
      sorted_by_effort == SortedByField(projects_with_data, "effort", TRUE)
      sorted_by_progress == SortedByField(projects_with_data, "progress", FALSE)
      top_10_pct_count == Max({1, Len(projects_with_data) \div 10})
      top_effort == SubSeq(sorted_by_effort, 1, top_10_pct_count)
      bottom_progress == SubSeq(sorted_by_progress, 1, top_10_pct_count)
      flagged_projects ==
        SelectSeq(top_effort,
                  LAMBDA te : \E i \in 1..Len(bottom_progress) :
                                bottom_progress[i].project_id = te.project_id)
  IN IF Len(projects_with_data) >= 10 /\ Len(flagged_projects) > 0
     THEN AppendCopyOfLast(
            AppendInsight(st, "executive_insights",
              Insight("value_leakage",
                      Line("Top 10% Effort / Bottom 10% Outcome: Projects Flagged",
                           <<Len(flagged_projects)>>),
                      "critical",
                      Line("projects consuming highest effort but delivering lowest progress/value",
                           <<Len(flagged_projects)>>),
                      Text("Significant resource investment with minimal return"),
                      Text("Immediate review for scope reduction, reprioritization, or termination"),
                      [flagged_count |-> Len(flagged_projects),
                       flagged_projects |-> flagged_projects],
                      "Top 10% effort INTERSECT Bottom 10% progress",
                      {"tick", "smartsheet", "wave"}, None, "High")),
            "executive_insights", "vp_insights")
     ELSE st

\* _formula_delivery_confidence_forecast
_formula_delivery_confidence_forecast(st, prj) ==
  LET items == ValidItems(prj)
      completion(pd) == Get(pd["derived_metrics"], "completion_pct", None)
      work_days(pd) == Get(pd["actuals_summary"], "work_span_days", None)
      hasVelocity(pd) == /\ Truthy(completion(pd)) /\ Truthy(work_days(pd))
                         /\ FGt(work_days(pd), Num(30))
      lowVelocity(pd) == /\ hasVelocity(pd)
                         /\ FLt(FDiv(completion(pd), work_days(pd)), Rat(1, 2))
      burn_rate(pd) == Get(pd["derived_metrics"], "daily_burn_rate", None)
      remaining_budget(pd) == Get(pd["derived_metrics"], "remaining_budget", None)
      hasBurn(pd) == /\ Truthy(burn_rate(pd)) /\ Positive(burn_rate(pd))
                     /\ Truthy(remaining_budget(pd))
      highBurn(pd) == /\ hasBurn(pd)
                      /\ FLt(FDiv(remaining_budget(pd), burn_rate(pd)), Num(30))
      slippage(pd) == /\ NonEmpty(pd["wave_trends"])
                      /\ Truthy(Get(pd["wave_trends"], "recent_deterioration", None))
      data_sources(pd) == (IF hasVelocity(pd) THEN 1 ELSE 0) + (IF hasBurn(pd) THEN 1 ELSE 0)
                          + (IF slippage(pd) THEN 1 ELSE 0)
      risk_signals(pd) == When(lowVelocity(pd), "Low velocity")
                          \o When(highBurn(pd), "High burn rate")
                          \o When(slippage(pd), "Task slippage trend")
      at_risk == SelectSeq(items, LAMBDA it : /\ data_sources(it.val) >= 2
                                              /\ Len(risk_signals(it.val)) >= 2)
      at_risk_projects ==
        [i \in 1..Len(at_risk) |->
           [project_id |-> at_risk[i].key,
            project_name |-> ProjectName(at_risk[i].val),
            risk_signals |-> risk_signals(at_risk[i].val),
            forecast |-> "Likely to Miss"]]
  IN IF Len(at_risk_projects) > 0
     THEN AppendCopyOfLast(
            AppendInsight(st, "executive_insights",
              Insight("predictive_risk",
                      Line("Delivery Confidence Forecast: Projects Likely to Miss",
                           <<Len(at_risk_projects)>>),
                      "critical",
                      Line("projects show multiple risk signals indicating delivery failure",
                           <<Len(at_risk_projects)>>),
                      Text("Portfolio delivery commitments at risk"),
                      Text("Implement recovery plans or adjust expectations immediately"),
                      [at_risk_count |-> Len(at_risk_projects),
                       at_risk_projects |-> at_risk_projects],
                      "Risk Score = Low velocity + High burn + Slippage (binary: Likely to Miss)",
                      {"tick", "smartsheet", "wave"}, None, "High")),
            "executive_insights", "vp_insights")
     ELSE st

\* _formula_cost_per_strategic_outcome
_formula_cost_per_strategic_outcome(st, prj) ==
  LET items == ValidItems(prj)
      cost(pd) == Get(pd["actuals_summary"], "total_cost", None)
      value_lever(pd) == IF NonEmpty(pd["latest_wave_snapshot"])
                         THEN Get(pd["latest_wave_snapshot"], "value_lever", None)
                         ELSE None
      counted == SelectSeq(items, LAMBDA it : /\ Positive(cost(it.val))
                                              /\ Truthy(value_lever(it.val))
                                              /\ Strip(PyStr(value_lever(it.val)).v) # <<>>)
      \* the keys of value_lever_costs, in the order the loop inserts them
      first == SelectSeq([i \in 1..Len(counted) |-> i],
                         LAMBDA i : \A j \in 1..(i - 1) :
                                      value_lever(counted[j].val) # value_lever(counted[i].val))
      Of(lever) == SelectSeq(counted, LAMBDA it : value_lever(it.val) = lever)
      value_lever_costs ==
        [g \in 1..Len(first) |->
           LET lever == value_lever(counted[first[g]].val)
           IN [lever |-> lever,
               cost |-> FSum([i \in 1..Len(Of(lever)) |-> cost(Of(lever)[i].val)]),
               project_count |-> Len(Of(lever))]]
      sorted_levers == SortedByField(value_lever_costs, "cost", TRUE)
  IN IF Len(value_lever_costs) > 0
     THEN AppendInsight(st, "vp_insights",
            Insight("value_leakage",
                    Line("Cost per Strategic Outcome: Value Levers Analyzed",
                         <<Len(value_lever_costs)>>),
                    "info",
                    Line("Investment distribution across strategic value levers",
                         <<Len(value_lever_costs)>>),
                    Text("Enables value-based portfolio optimization"),
                    Text("Rebalance investment toward highest-value levers"),
                    [value_lever_count |-> Len(value_lever_costs),
                     top_investments |-> sorted_levers],
                    "Cost per Value Lever = Total Tick cost / Value Lever",
                    {"tick", "wave"}, None, "High"))
     ELSE st


\* _formula_execution_drag_index
_formula_execution_drag_index(st, prj) ==
  LET items == ValidItems(prj)
      task_start(pd) == _safe_date(Get(pd["baseline_metrics"], "baseline_start", None))
      approval_date(pd) == _safe_date(Get(pd["latest_wave_snapshot"], "approval_date", None))
      drag_days(pd) == task_start(pd).v - approval_date(pd).v
      dragging == SelectSeq(items, LAMBDA it : /\ task_start(it.val).k = "date"
                                                /\ approval_date(it.val).k = "date"
                                                /\ task_start(it.val).v > approval_date(it.val).v
                                                /\ drag_days(it.val) > 30)
      drag_projects ==
        [i \in 1..Len(dragging) |->
           [project_id |-> dragging[i].key,
            project_name |-> ProjectName(dragging[i].val),
            drag_days |-> drag_days(dragging[i].val),
            approval_date |-> [k |-> "isodate", v |-> approval_date(dragging[i].val).v],
            start_date |-> [k |-> "isodate", v |-> task_start(dragging[i].val).v]]]
      avg_drag == FDiv(FSum([i \in 1..Len(drag_projects) |-> Num(drag_projects[i].drag_days)]),
                       Num(Len(drag_projects)))
  IN IF Len(drag_projects) > 0
     THEN AppendCopyOfLast(
            AppendInsight(st, "vp_insights",
              Insight("velocity",
                      Line("Execution Drag Index: Days Average Delay", <<Fmt(avg_drag, 0)>>),
                      "warning",
                      Line("projects show significant delay between approval and execution start",
                           <<Len(drag_projects)>>),
                      Line("Average days lost between approval and start", <<Fmt(avg_drag, 0)>>),
                      Text("Streamline project kickoff and resource allocation processes"),
                      [avg_drag_days |-> avg_drag,
                       affected_projects |-> Len(drag_projects),
                       worst_offenders |->
                         StableSort(drag_projects, [i \in 1..Len(drag_projects) |-> Num(drag_projects[i].drag_days)], TRUE)],
                      "Drag Days = Task Start Date - Approval Date",
                      {"smartsheet", "wave"}, None, "High")),
            "vp_insights", "manager_insights")
     ELSE st

\* _formula_investment_map
_formula_investment_map(st, prj) ==
  LET items == ValidItems(prj)
      Effort(pd) == Or(Get(pd["actuals_summary"], "total_hours", None),
                       Get(pd["actuals_summary"], "total_cost", None))
      value_lever(pd) == IF NonEmpty(pd["latest_wave_snapshot"])
                         THEN Get(pd["latest_wave_snapshot"], "value_lever", None)
                         ELSE None
      progress(pd) == Get(pd["derived_metrics"], "completion_pct", None)
      counted == SelectSeq(items, LAMBDA it : Positive(Effort(it.val)))
      projects_with_data ==
        [i \in 1..Len(counted) |->
           [project_id |-> counted[i].key,
            project_name |-> ProjectName(counted[i].val),
            effort |-> Effort(counted[i].val),
            has_value |-> HasValueLever(value_lever(counted[i].val)),
            progress |-> IF Truthy(progress(counted[i].val))
                         THEN progress(counted[i].val) ELSE Num(0)]]
      Ascending(es) == StableSort(es, es, FALSE)
      efforts == Ascending([i \in 1..Len(projects_with_data) |-> projects_with_data[i].effort])
      median_effort == efforts[(Len(projects_with_data) \div 2) + 1]
      over_invested == SelectSeq(projects_with_data,
                                 LAMBDA p : FGt(p.effort, median_effort) /\ ~p.has_value)
      under_invested == SelectSeq(projects_with_data,
                                  LAMBDA p : FLt(p.effort, median_effort) /\ p.has_value)
      st1 == IF Len(over_invested) > 0
             THEN AppendInsight(st, "vp_insights",
                    Insight("prioritization",
                            Line("Over-Investment Alert: Projects", <<Len(over_invested)>>),
                            "warning",
                            Line("projects consuming above-median effort with no clear value lever",
                                 <<Len(over_invested)>>),
                            Text("Inefficient resource allocation"),
                            Text("Review value proposition or reduce investment"),
                            [over_invested_count |-> Len(over_invested),
                             projects |-> over_invested],
                            "Over-invested = High effort + No value lever",
                            {"tick", "wave"}, None, "High"))
             ELSE st
  IN IF Len(projects_with_data) >= 4
     THEN IF Len(under_invested) > 0
          THEN AppendInsight(st1, "vp_insights",
                 Insight("prioritization",
                         Line("Under-Investment Opportunity: Projects", <<Len(under_invested)>>),
                         "info",
                         Line("high-value projects receiving below-median investment",
                              <<Len(under_invested)>>),
                         Text("Potential for accelerated value delivery"),
                         Text("ACCELERATE: Consider increasing investment"),
                         [under_invested_count |-> Len(under_invested),
                          projects |-> under_invested],
                         "Under-invested = Low effort + Has value lever",
                         {"tick", "wave"}, None, "High"))
          ELSE st1
     ELSE st

\* _formula_hidden_dependency_risk
_formula_hidden_dependency_risk(st, prj) ==
  LET items == ValidItems(prj)
      schedule_health(pd) == Get(pd["baseline_metrics"], "schedule_health", Str(<<>>))
      status(pd) == Lower(schedule_health(pd).v)
      has_effort(pd) == /\ NonEmpty(pd["actuals_summary"])
                        /\ Truthy(Get(pd["actuals_summary"], "total_hours", None))
      has_dependencies(pd) == Get(pd["baseline_metrics"], "interdependencies", None)
      at_risk == SelectSeq(items, LAMBDA it : /\ Contains(status(it.val), Chars("green"))
                                              /\ \/ ~has_effort(it.val)
                                                 \/ Truthy(has_dependencies(it.val)))
      at_risk_projects ==
        [i \in 1..Len(at_risk) |->
           [project_id |-> at_risk[i].key,
            project_name |-> ProjectName(at_risk[i].val),
            reason |-> IF ~has_effort(at_risk[i].val)
                       THEN "No execution despite green status" ELSE "Has dependencies",
            dependencies |-> IF Truthy(has_dependencies(at_risk[i].val))
                             THEN has_dependencies(at_risk[i].val)
                             ELSE Label("None listed")]]
  IN IF \E i \in 1..Len(items) : LowerRaises(schedule_health(items[i].val)) THEN [st EXCEPT !.raised = TRUE]
     ELSE IF Len(at_risk_projects) > 0
     THEN AppendCopyOfLast(
            AppendInsight(st, "vp_insights",
              Insight("execution_health",
                      Line("Hidden Dependency Risk: Projects", <<Len(at_risk_projects)>>),
                      "warning",
                      Line("projects report green status but show no execution or have dependencies",
                           <<Len(at_risk_projects)>>),
                      Text("False confidence in project health"),
                      Text("Validate dependency status and execution progress"),
                      [at_risk_count |-> Len(at_risk_projects),
                       projects |-> at_risk_projects],
                      "Green status AND (No Tick effort OR Has dependencies)",
                      {"smartsheet", "tick"}, None, "High")),
            "vp_insights", "manager_insights")
     ELSE st

\* _formula_effort_progress_mismatch
_formula_effort_progress_mismatch(st, prj) ==
  LET items == ValidItems(prj)
      actual_hours(pd) == Get(pd["actuals_summary"], "total_hours", None)
      planned_hours(pd) == Get(pd["baseline_metrics"], "planned_hours", None)
      completion(pd) == Get(pd["derived_metrics"], "completion_pct", None)
      implied_completion(pd) == FMul(FDiv(actual_hours(pd), planned_hours(pd)), Num(100))
      mismatch == SelectSeq(items,
                    LAMBDA it : /\ Truthy(actual_hours(it.val))
                                /\ Truthy(planned_hours(it.val))
                                /\ Truthy(completion(it.val))
                                /\ FGt(actual_hours(it.val),
                                       FMul(planned_hours(it.val), Rat(1, 2)))
                                /\ FLt(completion(it.val), Num(40)))
      mismatch_projects ==
        [i \in 1..Len(mismatch) |->
           [project_id |-> mismatch[i].key,
            project_name |-> ProjectName(mismatch[i].val),
            actual_hours |-> actual_hours(mismatch[i].val),
            planned_hours |-> planned_hours(mismatch[i].val),
            reported_completion |-> completion(mismatch[i].val),
            implied_completion |-> implied_completion(mismatch[i].val),
            gap |-> FSub(implied_completion(mismatch[i].val), completion(mismatch[i].val))]]
  IN IF Len(mismatch_projects) > 0
     THEN AppendInsight(st, "manager_insights",
            Insight("data_hygiene",
                    Line("Effort-Progress Mismatch: Projects", <<Len(mismatch_projects)>>),
                    "warning",
                    Line("projects show high effort but low reported progress",
                         <<Len(mismatch_projects)>>),
                    Text("Potential productivity issues or data quality problems"),
                    Text("Reconcile completion % with actual work performed"),
                    [mismatch_count |-> Len(mismatch_projects),
                     projects |-> mismatch_projects],
                    "Actual hours > 50% planned AND Completion < 40%",
                    {"tick", "smartsheet"}, None, "High"))
     ELSE st

\* _formula_resource_utilization_quality
_formula_resource_utilization_quality(st, prj) ==
  LET items == ValidItems(prj)
      effort(pd) == Get(pd["actuals_summary"], "total_hours", None)
      counted == SelectSeq(items, LAMBDA it : Positive(effort(it.val)))
      strategic == SelectSeq(counted, LAMBDA it : NonEmpty(it.val["latest_wave_snapshot"]))
      total_effort == FSum([i \in 1..Len(counted) |-> effort(counted[i].val)])
      strategic_effort == FSum([i \in 1..Len(strategic) |-> effort(strategic[i].val)])
      strategic_util_pct == FMul(FDiv(strategic_effort, total_effort), Num(100))
  IN IF Positive(total_effort) /\ FLt(strategic_util_pct, Num(70))
     THEN AppendInsight(st, "vp_insights",
            Insight("resource_utilization",
                    Line("Resource Utilization Quality: % Strategic",
                         <<Fmt(strategic_util_pct, 1)>>),
                    "warning",
                    Line("Only % of total effort is linked to Wave strategic initiatives",
                         <<Fmt(strategic_util_pct, 1)>>),
                    Text("Significant effort on non-strategic work"),
                    Text("Review unlinked effort and validate strategic alignment"),
                    [strategic_util_pct |-> strategic_util_pct,
                     strategic_effort |-> strategic_effort,
                     total_effort |-> total_effort,
                     non_strategic_effort |-> FSub(total_effort, strategic_effort)],
                    "Strategic Utilization = Wave-linked effort / Total effort",
                    {"tick", "wave"}, None, "High"))
     ELSE st

\* _formula_managerial_span_effectiveness
_formula_managerial_span_effectiveness(st, prj) ==
  LET items == ValidItems(prj)
      owner(pd) == Get(pd["baseline_metrics"], "owner", None)
      schedule_variance(pd) == Get(pd["derived_metrics"], "schedule_variance_days", Num(0))
      budget_overrun(pd) == Get(pd["derived_metrics"], "budget_overrun", Bool(FALSE))
      owned == SelectSeq(items, LAMBDA it : /\ Truthy(owner(it.val))
                                            /\ Strip(PyStr(owner(it.val)).v) # <<>>)
      \* the keys of manager_loads, in the order the loop inserts them
      first == SelectSeq([i \in 1..Len(owned) |-> i],
                         LAMBDA i : \A j \in 1..(i - 1) : owner(owned[j].val) # owner(owned[i].val))
      Of(manager) == SelectSeq(owned, LAMBDA it : owner(it.val) = manager)
      Delayed(manager) == SelectSeq(Of(manager), LAMBDA it : FGt(schedule_variance(it.val), Num(0)))
      manager_loads ==
        [g \in 1..Len(first) |->
           LET manager == owner(owned[first[g]].val)
               project_count == Len(Of(manager))
               total_delay == FSum([i \in 1..Len(Delayed(manager)) |->
                                      schedule_variance(Delayed(manager)[i].val)])
           IN [manager |-> manager,
               project_count |-> project_count,
               avg_delay_days |-> FDiv(total_delay, Num(project_count)),
               over_budget_count |->
                 Len(SelectSeq(Of(manager), LAMBDA it : Truthy(budget_overrun(it.val))))]]
      overloaded_managers ==
        SelectSeq(manager_loads,
                  LAMBDA m : /\ m.project_count >= 5
                             /\ \/ FGt(m.avg_delay_days, Num(30))
                                \/ 2 * m.over_budget_count > m.project_count)
  IN IF Len(overloaded_managers) > 0
     THEN AppendInsight(st, "vp_insights",
            Insight("resource_utilization",
                    Line("Managerial Span Effectiveness: Overloaded Managers",
                         <<Len(overloaded_managers)>>),
                    "warning",
                    Line("managers with high project counts show correlation with delays and overruns",
                         <<Len(overloaded_managers)>>),
                    Text("Managerial overload driving poor project outcomes"),
                    Text("Rebalance project assignments and consider additional management support"),
                    [overloaded_count |-> Len(overloaded_managers),
                     managers |-> overloaded_managers],
                    "High project count + Correlated delays/overruns",
                    {"smartsheet"}, None, "High"))
     ELSE st

\* _formula_burnout_risk_radar
_formula_burnout_risk_radar(st, prj) ==
  LET items == ValidItems(prj)
      total_hours(pd) == Get(pd["actuals_summary"], "total_hours", None)
      work_span(pd) == Get(pd["actuals_summary"], "work_span_days", None)
      completion(pd) == Get(pd["derived_metrics"], "completion_pct", None)
      unique_resources(pd) == Get(pd["actuals_summary"], "unique_resources", None)
      avg_hours_per_resource(pd) == FDiv(total_hours(pd), unique_resources(pd))
      at_risk == SelectSeq(items,
                   LAMBDA it : /\ Truthy(total_hours(it.val))
                               /\ Truthy(work_span(it.val))
                               /\ FGt(work_span(it.val), Num(60))
                               /\ Truthy(unique_resources(it.val))
                               /\ FGt(avg_hours_per_resource(it.val), Num(200))
                               /\ Truthy(completion(it.val))
                               /\ FLt(completion(it.val), Num(50)))
      burnout_risk_projects ==
        [i \in 1..Len(at_risk) |->
           [project_id |-> at_risk[i].key,
            project_name |-> ProjectName(at_risk[i].val),
            total_hours |-> total_hours(at_risk[i].val),
            unique_resources |-> unique_resources(at_risk[i].val),
            avg_hours_per_resource |-> avg_hours_per_resource(at_risk[i].val),
            completion |-> completion(at_risk[i].val),
            work_span_days |-> work_span(at_risk[i].val)]]
  IN IF Len(burnout_risk_projects) > 0
     THEN AppendCopyOfLast(
            AppendInsight(st, "vp_insights",
              Insight("resource_utilization",
                      Line("Burnout Risk Radar: Projects at Risk", <<Len(burnout_risk_projects)>>),
                      "critical",
                      Line("projects show sustained high effort with low progress",
                           <<Len(burnout_risk_projects)>>),
                      Text("Team burnout and attrition risk"),
                      Text("Review team health, scope, and consider resource rotation"),
                      [at_risk_count |-> Len(burnout_risk_projects),
                       projects |-> burnout_risk_projects],
                      "Sustained effort (>200 hrs/person) + Low progress (<50%)",
                      {"tick", "smartsheet"}, None, "High")),
            "vp_insights", "manager_insights")
     ELSE st

\* _formula_phantom_work_detection
_formula_phantom_work_detection(st, prj, tick_table) ==
  LET items == ValidItems(prj)
      hours(pd) == Get(pd["actuals_summary"], "total_hours", Num(0))
      phantom == SelectSeq(items,
                   LAMBDA it : /\ NonEmpty(it.val["actuals_summary"])
                               /\ Truthy(Get(it.val["actuals_summary"], "total_hours", None))
                               /\ IsEmpty(it.val["baseline_metrics"])
                               /\ IsEmpty(it.val["latest_wave_snapshot"]))
      phantom_hours == FSum([i \in 1..Len(phantom) |-> hours(phantom[i].val)])
      phantom_projects ==
        [i \in 1..Len(phantom) |->
           [project_id |-> phantom[i].key,
            project_name |-> ProjectName(phantom[i].val),
            hours |-> hours(phantom[i].val)]]
  IN IF tick_table.k = "none" THEN st
     ELSE IF Positive(phantom_hours)
     THEN AppendInsight(st, "manager_insights",
            Insight("data_hygiene",
                    Line("Phantom Work Detection: Hours Unaccounted", <<Fmt(phantom_hours, 0)>>),
                    "warning",
                    Line("hours logged in Tick with no Smartsheet task or Wave mapping",
                         <<Fmt(phantom_hours, 0)>>),
                    Text("Work being performed outside of approved project scope"),
                    Text("Investigate unlinked work and ensure proper project setup"),
                    [phantom_hours |-> phantom_hours,
                     phantom_project_count |-> Len(phantom_projects),
                     projects |-> phantom_projects],
                    "Tick hours AND (No Smartsheet task AND No Wave mapping)",
                    {"tick"}, None, "High"))
     ELSE st

\* row.get(col) of row r of df, for a column the map may lack
RowGet(df, r, cols, field) == IF Has(cols, field) THEN Cell(df, r, cols[field]) ELSE None

\* _formula_task_hygiene_score: every row of the baseline table is a task
_formula_task_hygiene_score(st, df, cols) ==
  LET has_owner(r) == /\ Has(cols, "owner")
                      /\ Truthy(RowGet(df, r, cols, "owner"))
                      /\ Strip(PyStr(RowGet(df, r, cols, "owner")).v) # <<>>
      has_dates(r) == /\ Has(cols, "start_date") /\ Has(cols, "finish_date")
                      /\ _safe_date(RowGet(df, r, cols, "start_date")).k = "date"
                      /\ _safe_date(RowGet(df, r, cols, "finish_date")).k = "date"
      has_effort(r) == /\ Has(cols, "hours")
                       /\ Positive(_safe_numeric(RowGet(df, r, cols, "hours")))
      total_tasks == Len(df.rows)
      complete_tasks == Cardinality({r \in 1..total_tasks :
                                       has_owner(r) /\ has_dates(r) /\ has_effort(r)})
      hygiene_pct == FMul(Rat(complete_tasks, total_tasks), Num(100))
  IN IF df.k = "none" THEN st
     ELSE IF total_tasks > 0 /\ FLt(hygiene_pct, Num(70))
     THEN AppendInsight(st, "manager_insights",
            Insight("data_hygiene",
                    Line("Task Hygiene Score: % Complete", <<Fmt(hygiene_pct, 1)>>),
                    "warning",
                    Line("Only % of Smartsheet tasks have owner, dates, and effort defined",
                         <<Fmt(hygiene_pct, 1)>>),
                    Text("Incomplete task definition impairs planning and tracking"),
                    Text("Enforce task completeness standards in Smartsheet"),
                    [hygiene_pct |-> hygiene_pct,
                     complete_tasks |-> complete_tasks,
                     total_tasks |-> total_tasks,
                     incomplete_tasks |-> total_tasks - complete_tasks],
                    "Hygiene % = Tasks with (owner + dates + effort) / Total tasks",
                    {"smartsheet"}, None, "High"))
     ELSE st

\* _formula_idle_capacity_hotspots: every row of the actuals table counts
_formula_idle_capacity_hotspots(st, df, cols) ==
  LET resource(r) == RowGet(df, r, cols, "resource")
      hours(r) == _safe_numeric(IF Has(cols, "actual_hours") THEN RowGet(df, r, cols, "actual_hours")
                                ELSE RowGet(df, r, cols, "hours"))
      proj_id(r) == IF Has(cols, "wave_num") THEN RowGet(df, r, cols, "wave_num")
                    ELSE RowGet(df, r, cols, "id")
      counted == SelectSeq(RowIndices(df), LAMBDA r : Truthy(resource(r)) /\ Truthy(hours(r)))
      \* the keys of resource_hours, in the order the loop inserts them
      first == SelectSeq([i \in 1..Len(counted) |-> i],
                         LAMBDA i : \A j \in 1..(i - 1) :
                                      resource(counted[j]) # resource(counted[i]))
      Of(res) == SelectSeq(counted, LAMBDA r : resource(r) = res)
      resource_hours ==
        [g \in 1..Len(first) |->
           LET res == resource(counted[first[g]])
           IN [resource |-> res,
               total_hours |-> FSum([i \in 1..Len(Of(res)) |-> hours(Of(res)[i])]),
               project_count |->
                 Cardinality({_normalize_project_id(proj_id(Of(res)[i])) :
                                i \in {j \in 1..Len(Of(res)) : Truthy(proj_id(Of(res)[j]))}})]]
      low_utilization_resources ==
        SelectSeq(resource_hours, LAMBDA x : FLt(x.total_hours, Num(100)))
      total_idle_hours == FSum([i \in 1..Len(low_utilization_resources) |->
                                  low_utilization_resources[i].total_hours])
  IN IF df.k = "none" THEN st
     ELSE IF ~Has(cols, "resource") THEN st
     ELSE IF Len(low_utilization_resources) > 5
     THEN AppendInsight(st, "manager_insights",
            Insight("resource_utilization",
                    Line("Idle Capacity Hotspots: Under-Utilized Resources",
                         <<Len(low_utilization_resources)>>),
                    "info",
                    Line("resources show low utilization with ~ total hours",
                         <<Len(low_utilization_resources), Fmt(total_idle_hours, 0)>>),
                    Text("Potential capacity for strategic initiatives"),
                    Text("Review availability and consider strategic assignments"),
                    [low_util_count |-> Len(low_utilization_resources),
                     total_idle_hours |-> total_idle_hours,
                     resources |-> low_utilization_resources],
                    "Resources with <100 hours logged",
                    {"tick"}, None, "Medium"))
     ELSE st

\* _formula_execution_velocity_by_team
_formula_execution_velocity_by_team(st, prj) ==
  LET items == ValidItems(prj)
      owner(pd) == Get(pd["baseline_metrics"], "owner", None)
      completion(pd) == Get(pd["derived_metrics"], "completion_pct", None)
      hours(pd) == Get(pd["actuals_summary"], "total_hours", None)
      counted == SelectSeq(items, LAMBDA it : /\ Truthy(owner(it.val))
                                              /\ Truthy(completion(it.val))
                                              /\ Positive(hours(it.val)))
      \* the keys of team_velocities, in the order the loop inserts them
      first == SelectSeq([i \in 1..Len(counted) |-> i],
                         LAMBDA i : \A j \in 1..(i - 1) :
                                      owner(counted[j].val) # owner(counted[i].val))
      Of(team) == SelectSeq(counted, LAMBDA it : owner(it.val) = team)
      velocity_analysis ==
        [g \in 1..Len(first) |->
           LET team == owner(counted[first[g]].val)
               completed == FSum([i \in 1..Len(Of(team)) |-> completion(Of(team)[i].val)])
               total == FSum([i \in 1..Len(Of(team)) |-> hours(Of(team)[i].val)])
           IN [team |-> team,
               velocity |-> FDiv(completed, total),
               total_completion |-> completed,
               total_hours |-> total,
               project_count |-> Len(Of(team))]]
      sorted_velocity == SortedByField(velocity_analysis, "velocity", FALSE)
  IN IF Len(velocity_analysis) >= 3
     THEN AppendInsight(st, "manager_insights",
            Insight("velocity",
                    Line("Execution Velocity by Team: Teams Analyzed", <<Len(velocity_analysis)>>),
                    "info",
                    Line("Velocity analysis across teams/owners", <<Len(velocity_analysis)>>),
                    Text("Identifies high and low performing teams"),
                    Text("Share best practices from high-velocity teams with low performers"),
                    [team_count |-> Len(velocity_analysis),
                     lowest_velocity |-> SubSeq(sorted_velocity, 1, 3),
                     all_teams |-> velocity_analysis],
                    "Velocity = Completion % / Effort hours",
                    {"tick", "smartsheet"}, None, "High"))
     ELSE st

\* formula after formula: an exception leaves generate_all_insights at once,
\* with what the formulas before it appended
\* the formulas in the order generate_all_insights calls them
Formula(i, st, src, prj) ==
  CASE i = 1 -> _formula_value_leakage_index(st, prj)
    [] i = 2 -> _formula_strategy_execution_coverage(st, prj)
    [] i = 3 -> _formula_top_bottom_analysis(st, prj)
    [] i = 4 -> _formula_delivery_confidence_forecast(st, prj)
    [] i = 5 -> _formula_cost_per_strategic_outcome(st, prj)
    [] i = 6 -> _formula_execution_drag_index(st, prj)
    [] i = 7 -> _formula_investment_map(st, prj)
    [] i = 8 -> _formula_hidden_dependency_risk(st, prj)
    [] i = 9 -> _formula_effort_progress_mismatch(st, prj)
    [] i = 10 -> _formula_resource_utilization_quality(st, prj)
    [] i = 11 -> _formula_managerial_span_effectiveness(st, prj)
    [] i = 12 -> _formula_burnout_risk_radar(st, prj)
    [] i = 13 -> _formula_phantom_work_detection(st, prj, src.tick_data)
    [] i = 14 -> _formula_task_hygiene_score(st, src.smartsheet_data, src.smartsheet_cols)
    [] i = 15 -> _formula_idle_capacity_hotspots(st, src.tick_data, src.tick_cols)
    [] i = 16 -> _formula_execution_velocity_by_team(st, prj)
    [] OTHER -> st

\* the calls of generate_all_insights from the i-th on: a formula that raises
\* ends the method, nothing catches it
RECURSIVE RunFormulas(_, _, _, _)
RunFormulas(st, i, src, prj) ==
  IF st.raised \/ i > 16 THEN st
  ELSE RunFormulas(Formula(i, st, src, prj), i + 1, src, prj)

\* the sort key of get_executive_insights, get_vp_insights, get_manager_insights
\* a variant of the sort key whose dict has no 'high' entry
SeverityRankWithoutHigh(severity) ==
  CASE severity = "critical" -> 0
    [] severity = "warning" -> 2
    [] severity = "info" -> 3
    [] OTHER -> 3
SeverityRank(severity) ==
  CASE severity = "critical" -> 0
    [] severity = "high" -> 1
    [] severity = "warning" -> 2
    [] severity = "info" -> 3
    [] OTHER -> 3
\* sorted(insights, key=lambda x: {...}.get(x['severity'], 3))
SortedBySeverity(insights) ==
  StableSort(insights, [i \in 1..Len(insights) |-> Num(SeverityRank(insights[i].severity))], FALSE)

\* ------------------------------------------------------------------------
\* Portfolio summary
\* ------------------------------------------------------------------------

\* a defaultdict(int) after counting the values vals[1], vals[2], ...
Counts(vals) ==
  [v \in {vals[i] : i \in 1..Len(vals)} |-> Cardinality({i \in 1..Len(vals) : vals[i] = v})]

RECURSIVE Flatten(_)
Flatten(ss) == IF ss = <<>> THEN <<>> ELSE Head(ss) \o Flatten(Tail(ss))

\* the summary that raises the budget risk at 30% already
PortfolioSummaryFromThirty(prj, now) ==
  LET n == Len(prj)
      overall(i) == prj[i].val["assessment"].overall_assessment
      baseline(i) == prj[i].val["baseline_metrics"]
      actuals(i) == prj[i].val["actuals_summary"]
      derived(i) == prj[i].val["derived_metrics"]
      WithSources(k) == Cardinality({i \in 1..n : overall(i).data_sources_available = k})
      budgets == SelectSeq([i \in 1..n |-> Get(baseline(i), "total_budget", None)], Truthy)
      costs == SelectSeq([i \in 1..n |-> Get(actuals(i), "total_cost", None)], Truthy)
      total_budget == FSum(budgets)
      total_actuals == FSum(costs)
      total_overruns == Cardinality({i \in 1..n : Truthy(Get(derived(i), "budget_overrun", None))})
      projects_with_delays ==
        Cardinality({i \in 1..n : FGt(Get(derived(i), "schedule_variance_days", Num(0)), Num(0))})
      critical_issues ==
        Flatten([i \in 1..n |->
                   LET rules == SelectSeq(prj[i].val["rule_evaluations"],
                                          LAMBDA rule : rule.severity = "critical")
                   IN [j \in 1..Len(rules) |->
                         [project_id |-> prj[i].key,
                          project_name |-> ProjectName(prj[i].val),
                          issue |-> rules[j].description,
                          recommendation |-> rules[j].recommendation]]])
      status_distribution == Counts([i \in 1..n |-> overall(i).status])
      at_risk_count == Get(status_distribution, "At Risk", 0)
      delayed_count == Get(status_distribution, "Delayed", 0)
      minimal_data == n - WithSources(3) - WithSources(2)
  IN [portfolio_overview |-> [total_projects |-> n, analysis_timestamp |-> now],
      status_distribution |-> status_distribution,
      health_distribution |-> Counts([i \in 1..n |-> overall(i).health]),
      confidence_distribution |-> Counts([i \in 1..n |-> overall(i).confidence_level]),
      data_completeness |-> [full_data |-> WithSources(3), partial_data |-> WithSources(2),
                             minimal_data |-> minimal_data],
      critical_issues |-> critical_issues,
      portfolio_metrics |->
        [total_baseline_budget |-> total_budget,
         total_actual_cost |-> total_actuals,
         portfolio_variance_pct |->
           IF Positive(total_budget) THEN _calculate_variance_pct(total_actuals, total_budget)
           ELSE None,
         projects_over_budget |-> total_overruns,
         projects_delayed |-> projects_with_delays],
      portfolio_risks |->
        When(10 * total_overruns >= 3 * n,
             [risk |-> "budget_trend", severity |-> "high",
              description |-> Line("of projects showing budget overruns", <<total_overruns, n>>),
              impact |-> "Portfolio-wide cost pressure"])
        \o When(10 * projects_with_delays > 4 * n,
                [risk |-> "schedule_trend", severity |-> "high",
                 description |-> Line("of projects experiencing delays",
                                      <<projects_with_delays, n>>),
                 impact |-> "Portfolio delivery timeline at risk"]),
      top_concerns |->
        When(2 * (at_risk_count + delayed_count) > n,
             Line("Over 50% of projects are At Risk or Delayed",
                  <<at_risk_count + delayed_count, n>>))
        \o When(10 * minimal_data > 3 * n,
                Line("projects have incomplete data across sources", <<minimal_data>>))
        \o When(Len(critical_issues) > 0,
                Line("critical issues requiring immediate attention", <<Len(critical_issues)>>))]

\* what get_portfolio_summary returns on the projects prj at time now: every
\* item of self.projects is counted
PortfolioSummary(prj, now) ==
  LET n == Len(prj)
      overall(i) == prj[i].val["assessment"].overall_assessment
      baseline(i) == prj[i].val["baseline_metrics"]
      actuals(i) == prj[i].val["actuals_summary"]
      derived(i) == prj[i].val["derived_metrics"]
      WithSources(k) == Cardinality({i \in 1..n : overall(i).data_sources_available = k})
      budgets == SelectSeq([i \in 1..n |-> Get(baseline(i), "total_budget", None)], Truthy)
      costs == SelectSeq([i \in 1..n |-> Get(actuals(i), "total_cost", None)], Truthy)
      total_budget == FSum(budgets)
      total_actuals == FSum(costs)
      total_overruns == Cardinality({i \in 1..n : Truthy(Get(derived(i), "budget_overrun", None))})
      projects_with_delays ==
        Cardinality({i \in 1..n : FGt(Get(derived(i), "schedule_variance_days", Num(0)), Num(0))})
      critical_issues ==
        Flatten([i \in 1..n |->
                   LET rules == SelectSeq(prj[i].val["rule_evaluations"],
                                          LAMBDA rule : rule.severity = "critical")
                   IN [j \in 1..Len(rules) |->
                         [project_id |-> prj[i].key,
                          project_name |-> ProjectName(prj[i].val),
                          issue |-> rules[j].description,
                          recommendation |-> rules[j].recommendation]]])
      status_distribution == Counts([i \in 1..n |-> overall(i).status])
      at_risk_count == Get(status_distribution, "At Risk", 0)
      delayed_count == Get(status_distribution, "Delayed", 0)
      minimal_data == n - WithSources(3) - WithSources(2)
  IN [portfolio_overview |-> [total_projects |-> n, analysis_timestamp |-> now],
      status_distribution |-> status_distribution,
      health_distribution |-> Counts([i \in 1..n |-> overall(i).health]),
      confidence_distribution |-> Counts([i \in 1..n |-> overall(i).confidence_level]),
      data_completeness |-> [full_data |-> WithSources(3), partial_data |-> WithSources(2),
                             minimal_data |-> minimal_data],
      critical_issues |-> critical_issues,
      portfolio_metrics |->
        [total_baseline_budget |-> total_budget,
         total_actual_cost |-> total_actuals,
         portfolio_variance_pct |->
           IF Positive(total_budget) THEN _calculate_variance_pct(total_actuals, total_budget)
           ELSE None,
         projects_over_budget |-> total_overruns,
         projects_delayed |-> projects_with_delays],
      portfolio_risks |->
        When(10 * total_overruns > 3 * n,
             [risk |-> "budget_trend", severity |-> "high",
              description |-> Line("of projects showing budget overruns", <<total_overruns, n>>),
              impact |-> "Portfolio-wide cost pressure"])
        \o When(10 * projects_with_delays > 4 * n,
                [risk |-> "schedule_trend", severity |-> "high",
                 description |-> Line("of projects experiencing delays",
                                      <<projects_with_delays, n>>),
                 impact |-> "Portfolio delivery timeline at risk"]),
      top_concerns |->
        When(2 * (at_risk_count + delayed_count) > n,
             Line("Over 50% of projects are At Risk or Delayed",
                  <<at_risk_count + delayed_count, n>>))
        \o When(10 * minimal_data > 3 * n,
                Line("projects have incomplete data across sources", <<minimal_data>>))
        \o When(Len(critical_issues) > 0,
                Line("critical issues requiring immediate attention", <<Len(critical_issues)>>))]

\* ------------------------------------------------------------------------
\* The inputs: the tables a caller may load and the identifiers it may ask for
\* ------------------------------------------------------------------------

MaxRows == 2

\* the subsequences of rows with at most MaxRows rows, in the order of rows
RECURSIVE PickRows(_, _)
PickRows(rows, S) ==
  IF S = {} THEN <<>>
  ELSE <<rows[Min(S)]>> \o PickRows(rows, S \ {Min(S)})
SubTables(columns, rows) ==
  {Table(columns, PickRows(rows, S)) :
     S \in {T \in SUBSET (1..Len(rows)) : Cardinality(T) <= MaxRows}}


\* the baseline tables: with the health columns, and cut down to id and budget
SmartsheetTables ==
  LET SmartsheetRows ==
        << <<Str(Chars("P1")), Num(100000), Str(Chars("Green")), Str(Chars("Green")), Date(100)>>,
           <<Str(Chars("P2")), Num(100000), NaN, NaN, NaN>>,
           <<Str(Chars("Unknown")), NaN, Str(Chars("Red")), Str(Chars("Red")), Date(20)>>,
           <<Str(Chars("P4")), Num(50000), Str(Chars("Green")), NaN, Date(50)>> >>
      full == SubTables(SmartsheetColumns, SmartsheetRows)
      FirstColumns(df, n) ==
        Table(SubSeq(df.columns, 1, n), [r \in 1..Len(df.rows) |-> SubSeq(df.rows[r], 1, n)])
  IN full \cup {FirstColumns(df, 2) : df \in full}

WaveTables ==
  LET WaveRows ==
        << <<Str(Chars(" p1")), Str(Chars("Green")), Str(Chars("Growth")), Date(10)>>,
           <<Str(Chars("P1")), Str(Chars("Red")), NaN, NaN>>,
           <<Str(Chars("P3")), Str(Chars("Green")), Str(Chars("Growth")), NaN>> >>
  IN SubTables(WaveColumns, WaveRows)

TickTables ==
  LET rows ==
        << <<Str(Chars("P1")), Num(10), Num(130000)>>,
           <<Str(Chars("P2")), NaN, Num(0)>>,
           <<Str(Chars("Not Specified")), Num(7), Num(50)>> >>
  IN SubTables(TickColumns, rows)

\* the identifiers a caller passes to analyze_project
CallerIds == {Str(Chars("P1")), Str(Chars(" p1")), Str(Chars("P2")), Str(Chars("Unknown"))}

\* ------------------------------------------------------------------------
\* The engine
\* ------------------------------------------------------------------------

VARIABLES
  smartsheet_data, wave_data, tick_data,     \* the loaded tables, or None
  smartsheet_cols, wave_cols, tick_cols,     \* their column maps
  projects,                                  \* dict: identifier -> project_data, in insertion order
  portfolio_insights,                        \* the last portfolio summary
  executive_insights, vp_insights, manager_insights,   \* the persona lists
  objects,                                   \* the heap: the objects the insights refer to
  clock,                                     \* datetime.now(), one tick a call
  mutations,                                 \* the caller's writes since the insights were generated
  last                                       \* the last call and what it returned

tables == <<smartsheet_data, wave_data, tick_data, smartsheet_cols, wave_cols, tick_cols>>
insights == <<executive_insights, vp_insights, manager_insights, objects, mutations>>
vars == <<tables, projects, portfolio_insights, insights, clock, last>>

\* an insertion-ordered dict as the sequence of its items
Keys(d) == {d[i].key : i \in 1..Len(d)}
Lookup(d, key) == d[CHOOSE i \in 1..Len(d) : d[i].key = key].val
\* a variant of d[key] = val that forgets a key it already holds
StoreOrForget(d, key, val) ==
  IF key \in Keys(d) THEN SelectSeq(d, LAMBDA it : it.key # key)
  ELSE Append(d, [key |-> key, val |-> val])
\* d[key] = val: an existing key keeps its place
Store(d, key, val) ==
  IF key \in Keys(d)
  THEN [i \in 1..Len(d) |-> IF d[i].key = key THEN [key |-> key, val |-> val] ELSE d[i]]
  ELSE Append(d, [key |-> key, val |-> val])

\* __init__
Init ==
  /\ smartsheet_data = None
  /\ wave_data = None
  /\ tick_data = None
  /\ smartsheet_cols = EmptyDict
  /\ wave_cols = EmptyDict
  /\ tick_cols = EmptyDict
  /\ projects = <<>>
  /\ portfolio_insights = EmptyDict
  /\ executive_insights = <<>>
  /\ vp_insights = <<>>
  /\ manager_insights = <<>>
  /\ objects = <<>>
  /\ clock = 0
  /\ mutations = 0
  /\ last = [op |-> "__init__"]

MaxCalls == 4

Tick == clock < MaxCalls /\ clock' = clock + 1

\* a variant of the column map load_smartsheet keeps: the entries of the map
\* of the table loaded before stay unless the new table has the field
SmartsheetColsMerged(df) ==
  LET WithId(cols) == IF Has(cols, "id") THEN cols ELSE Put(cols, "id", df.columns[1])
  IN Update(smartsheet_cols, WithId(_detect_columns_for_source(df)))
\* the column map load_smartsheet keeps: the id falls back to the first column
SmartsheetCols(df) ==
  LET WithId(cols) == IF Has(cols, "id") THEN cols ELSE Put(cols, "id", df.columns[1])
  IN WithId(_detect_columns_for_source(df))
\* the column map load_wave and load_tick keep: the id falls back to the first
\* column when there is no wave column either
SharedKeyCols(df) ==
  LET WithKey(cols) == IF Has(cols, "id") \/ Has(cols, "wave_num") THEN cols
                       ELSE Put(cols, "id", df.columns[1])
  IN WithKey(_detect_columns_for_source(df))

\* load_smartsheet
load_smartsheet(df) ==
  /\ Tick
  /\ smartsheet_data' = df
  /\ smartsheet_cols' = SmartsheetCols(df)
  /\ last' = [op |-> "load_smartsheet", df |-> df,
              replaced |-> smartsheet_data # None /\ smartsheet_data # df]
  /\ UNCHANGED <<wave_data, tick_data, wave_cols, tick_cols, projects, portfolio_insights,
                 insights>>

\* load_wave
load_wave(df) ==
  /\ Tick
  /\ wave_data' = df
  /\ wave_cols' = SharedKeyCols(df)
  /\ last' = [op |-> "load_wave", df |-> df,
              replaced |-> wave_data # None /\ wave_data # df]
  /\ UNCHANGED <<smartsheet_data, tick_data, smartsheet_cols, tick_cols, projects,
                 portfolio_insights, insights>>

\* load_tick
load_tick(df) ==
  /\ Tick
  /\ tick_data' = df
  /\ tick_cols' = SharedKeyCols(df)
  /\ last' = [op |-> "load_tick", df |-> df,
              replaced |-> tick_data # None /\ tick_data # df]
  /\ UNCHANGED <<smartsheet_data, wave_data, smartsheet_cols, wave_cols, projects,
                 portfolio_insights, insights>>

Loaded == Sources(smartsheet_data, smartsheet_cols, wave_data, wave_cols, tick_data, tick_cols)

\* a call of analyze_project: the record is stored under the identifier as
\* passed; when the call raises nothing is stored.  last.repeated says that
\* the caller's previous call was analyze_project with the same identifier.
AnalyzeProject(project_id) ==
  LET Returns(r) ==
        /\ projects' = IF r.raised THEN projects ELSE Store(projects, project_id, r.data)
        /\ last' = [op |-> "analyze_project", project_id |-> project_id, result |-> r,
                     repeated |-> last.op = "analyze_project" /\ last.project_id = project_id]
  IN /\ Tick
     /\ Returns(analyze_project(Loaded, project_id, clock))
     /\ UNCHANGED <<tables, portfolio_insights, insights>>

\* a < b for two str, by the code points of the first characters that differ
RECURSIVE StrLess(_, _)
StrLess(a, b) ==
  LET \* the characters of the model in code point order
      CodePoints == Chars(" #$,-") \o Digits \o UpperCase \o Chars("_") \o LowerCase
      Ord(c) == CHOOSE i \in 1..Len(CodePoints) : CodePoints[i] = c
  IN IF b = <<>> THEN FALSE
     ELSE IF a = <<>> THEN TRUE
     ELSE IF Head(a) = Head(b) THEN StrLess(Tail(a), Tail(b))
     ELSE Ord(Head(a)) < Ord(Head(b))
\* sorted(list(S)) for a set of str
RECURSIVE Sorted(_)
Sorted(S) ==
  IF S = {} THEN <<>>
  ELSE LET least == CHOOSE x \in S : \A y \in S \ {x} : StrLess(x, y)
       IN <<least>> \o Sorted(S \ {least})

\* df[col].apply(_normalize_project_id).dropna().unique(), as a set of str
NormalizedIds(df, col) ==
  {_normalize_project_id(Cell(df, r, col)).v :
     r \in {q \in 1..Len(df.rows) : ~IsNa(Cell(df, q, col))}}

\* the identifiers analyze_all_projects discovers, sorted
DiscoveredIds(src) ==
  Sorted(
    (IF src.smartsheet_data.k # "none" /\ Has(src.smartsheet_cols, "id")
     THEN NormalizedIds(src.smartsheet_data, src.smartsheet_cols["id"]) ELSE {})
    \cup
    (IF src.smartsheet_data.k # "none" /\ Has(src.smartsheet_cols, "wave_num")
     THEN NormalizedIds(src.smartsheet_data, src.smartsheet_cols["wave_num"]) ELSE {})
    \cup
    (IF src.wave_data.k # "none" /\ Has(src.wave_cols, "wave_num")
     THEN NormalizedIds(src.wave_data, src.wave_cols["wave_num"]) ELSE {})
    \cup
    (IF src.tick_data.k # "none" /\ Has(src.tick_cols, "wave_num")
     THEN NormalizedIds(src.tick_data, src.tick_cols["wave_num"]) \ {Chars("NOT SPECIFIED")}
     ELSE {}))

\* the loop of analyze_all_projects over ids[i..]: an identifier whose
\* analysis raises is skipped, the others are stored
RECURSIVE AnalyzeEach(_, _, _, _, _)
AnalyzeEach(src, ids, i, now, prj) ==
  IF i > Len(ids) THEN prj
  ELSE LET Kept(r) == IF r.raised THEN prj ELSE Store(prj, Str(ids[i]), r.data)
       IN AnalyzeEach(src, ids, i + 1, now, Kept(analyze_project(src, Str(ids[i]), now)))

\* analyze_all_projects: returns self.projects
analyze_all_projects ==
  /\ Tick
  /\ projects' = AnalyzeEach(Loaded, DiscoveredIds(Loaded), 1, clock, projects)
  /\ last' = [op |-> "analyze_all_projects", before |-> Keys(projects)]
  /\ UNCHANGED <<tables, portfolio_insights, insights>>


\* get_portfolio_summary
get_portfolio_summary ==
  /\ Tick
  /\ IF Len(projects) = 0
     THEN /\ last' = [op |-> "get_portfolio_summary", error |-> TRUE]
          /\ UNCHANGED portfolio_insights
     ELSE LET Returns(summary) ==
                /\ portfolio_insights' = summary
                /\ last' = [op |-> "get_portfolio_summary", error |-> FALSE, result |-> summary]
          IN Returns(PortfolioSummary(projects, clock))
  /\ UNCHANGED <<tables, projects, insights>>

Next ==
  \/ \E df \in SmartsheetTables : load_smartsheet(df)
  \/ \E df \in WaveTables : load_wave(df)
  \/ \E df \in TickTables : load_tick(df)
  \/ \E project_id \in CallerIds : AnalyzeProject(project_id)
  \/ analyze_all_projects
  \/ get_portfolio_summary

Spec == Init /\ [][Next]_vars

\* an engine whose caller loads files and analyzes all projects, nothing else
\* actuals files that name their projects and have no key column
TickNamedTables ==
  SubTables(Headers[7], << <<Str(Chars("P1")), Num(10)>>, <<Str(Chars("P21")), Num(7)>> >>)
NextLoads ==
  \/ \E df \in SmartsheetTables : load_smartsheet(df)
  \/ \E df \in WaveTables : load_wave(df)
  \/ \E df \in TickTables \cup TickNamedTables : load_tick(df)
  \/ analyze_all_projects

SpecLoads == Init /\ [][NextLoads]_vars

\* ------------------------------------------------------------------------
\* The insights of an analyzed portfolio
\* ------------------------------------------------------------------------

\* the engine as main() leaves it before it asks for the insights: the files
\* loaded into a new engine and analyze_all_projects run
InitAnalysed ==
  LET Analysed(src) ==
        /\ smartsheet_data = src.smartsheet_data
        /\ wave_data = src.wave_data
        /\ tick_data = src.tick_data
        /\ smartsheet_cols = src.smartsheet_cols
        /\ wave_cols = src.wave_cols
        /\ tick_cols = src.tick_cols
        /\ projects = AnalyzeEach(src, DiscoveredIds(src), 1, 0, <<>>)
      Files(S) == {df \in S : Len(df.rows) = MaxRows} \cup {None}
  IN /\ \E sm \in Files(SmartsheetTables), wv \in Files(WaveTables), tk \in Files(TickTables) :
          Analysed(Sources(sm, IF sm = None THEN EmptyDict ELSE SmartsheetCols(sm),
                           wv, IF wv = None THEN EmptyDict ELSE SharedKeyCols(wv),
                           tk, IF tk = None THEN EmptyDict ELSE SharedKeyCols(tk)))
     /\ portfolio_insights = EmptyDict
     /\ executive_insights = <<>>
     /\ vp_insights = <<>>
     /\ manager_insights = <<>>
     /\ objects = <<>>
     /\ clock = 1
     /\ mutations = 0
     /\ last = [op |-> "analyze_all_projects", before |-> {}]

\* a variant of generate_all_insights that keeps the lists of the call before
\* and appends to them
generate_all_insights_appending ==
  LET Generated(st) ==
        /\ executive_insights' = st.executive_insights
        /\ vp_insights' = st.vp_insights
        /\ manager_insights' = st.manager_insights
        /\ objects' = st.objects
        /\ last' = [op |-> "generate_all_insights", raised |-> st.raised,
                    again |-> last.op = "generate_all_insights"]
      Kept == [executive_insights |-> executive_insights, vp_insights |-> vp_insights,
               manager_insights |-> manager_insights, objects |-> objects, raised |-> FALSE]
  IN /\ Generated(RunFormulas(Kept, 1, Loaded, projects))
     /\ mutations' = 0
     /\ UNCHANGED <<tables, projects, portfolio_insights, clock>>

\* generate_all_insights: the lists are new ones; when a formula raises the
\* lists hold what the formulas before it appended
generate_all_insights ==
  LET Generated(st) ==
        /\ executive_insights' = st.executive_insights
        /\ vp_insights' = st.vp_insights
        /\ manager_insights' = st.manager_insights
        /\ objects' = st.objects
        /\ last' = [op |-> "generate_all_insights", raised |-> st.raised,
                    again |-> last.op = "generate_all_insights"]
  IN /\ Generated(RunFormulas(NoInsights, 1, Loaded, projects))
     /\ mutations' = 0
     /\ UNCHANGED <<tables, projects, portfolio_insights, clock>>

get_executive_insights ==
  /\ last' = [op |-> "get_executive_insights", result |-> SortedBySeverity(executive_insights)]
  /\ UNCHANGED <<tables, projects, portfolio_insights, insights, clock>>

get_vp_insights ==
  /\ last' = [op |-> "get_vp_insights", result |-> SortedBySeverity(vp_insights)]
  /\ UNCHANGED <<tables, projects, portfolio_insights, insights, clock>>

get_manager_insights ==
  /\ last' = [op |-> "get_manager_insights", result |-> SortedBySeverity(manager_insights)]
  /\ UNCHANGED <<tables, projects, portfolio_insights, insights, clock>>

\* a variant of remove_duplicate_insights whose key is (title, category)
remove_duplicate_titles(insight_list) ==
  LET firsts == {i \in 1..Len(insight_list) :
                   \A j \in 1..(i - 1) :
                     <<insight_list[j].title, insight_list[j].category>>
                       # <<insight_list[i].title, insight_list[i].category>>}
  IN [p \in 1..Cardinality(firsts) |->
        insight_list[CHOOSE i \in firsts : Cardinality({j \in firsts : j <= i}) = p]]

\* the loop of remove_duplicate_insights (ui.py) from the i-th insight on
RECURSIVE UniqueFrom(_, _, _, _)
UniqueFrom(insight_list, i, seen, unique_insights) ==
  IF i > Len(insight_list) THEN unique_insights
  ELSE LET Kept(insight_key) ==
             IF insight_key \notin seen
             THEN UniqueFrom(insight_list, i + 1, seen \cup {insight_key},
                             Append(unique_insights, insight_list[i]))
             ELSE UniqueFrom(insight_list, i + 1, seen, unique_insights)
       IN Kept(<<insight_list[i].title, insight_list[i].category, insight_list[i].severity>>)

\* remove_duplicate_insights (ui.py)
remove_duplicate_insights(insight_list) == UniqueFrom(insight_list, 1, {}, <<>>)

\* the "all personas" view of main (ui.py): the three sorted lists, one after
\* the other, without the duplicates
AllPersonasView ==
  LET Shown(combined) ==
        last' = [op |-> "remove_duplicate_insights", insights |-> combined,
                 result |-> remove_duplicate_insights(combined)]
  IN /\ Shown(SortedBySeverity(executive_insights) \o SortedBySeverity(vp_insights)
              \o SortedBySeverity(manager_insights))
     /\ UNCHANGED <<tables, projects, portfolio_insights, insights, clock>>

MaxMutations == 1
Personas == {"executive_insights", "vp_insights", "manager_insights"}
PersonaList(persona) ==
  CASE persona = "executive_insights" -> executive_insights
    [] persona = "vp_insights" -> vp_insights
    [] persona = "manager_insights" -> manager_insights

\* the caller writes insight['severity'] = severity into the i-th dict of a
\* persona list (the getters return the engine's own dicts)
SetSeverity(persona, i, severity) ==
  /\ mutations < MaxMutations
  /\ i \in 1..Len(PersonaList(persona))
  /\ PersonaList(persona)[i].severity # severity
  /\ executive_insights' = IF persona = "executive_insights"
                           THEN [executive_insights EXCEPT ![i].severity = severity]
                           ELSE executive_insights
  /\ vp_insights' = IF persona = "vp_insights"
                    THEN [vp_insights EXCEPT ![i].severity = severity] ELSE vp_insights
  /\ manager_insights' = IF persona = "manager_insights"
                         THEN [manager_insights EXCEPT ![i].severity = severity]
                         ELSE manager_insights
  /\ mutations' = mutations + 1
  /\ last' = [op |-> "set_severity", persona |-> persona, index |-> i]
  /\ UNCHANGED <<tables, projects, portfolio_insights, objects, clock>>

\* the caller writes insight['metrics']['reviewed'] = True into the metrics
\* dict of the i-th dict of a persona list
SetMetric(persona, i) ==
  /\ mutations < MaxMutations
  /\ i \in 1..Len(PersonaList(persona))
  /\ objects' = [objects EXCEPT ![PersonaList(persona)[i].metrics.v] =
                                  Put(@, "reviewed", Bool(TRUE))]
  /\ mutations' = mutations + 1
  /\ last' = [op |-> "set_metric", persona |-> persona, index |-> i]
  /\ UNCHANGED <<tables, projects, portfolio_insights, executive_insights, vp_insights,
                 manager_insights, clock>>

MaxInsights == 6

NextInsights ==
  \/ generate_all_insights
  \/ get_executive_insights
  \/ get_vp_insights
  \/ get_manager_insights
  \/ AllPersonasView
  \/ \E persona \in Personas, i \in 1..MaxInsights, severity \in {"critical", "high", "warning", "info"} :
       SetSeverity(persona, i, severity)
  \/ \E persona \in Personas, i \in 1..MaxInsights : SetMetric(persona, i)

SpecInsights == InitAnalysed /\ [][NextInsights]_vars

\* ------------------------------------------------------------------------
\* The functions of the engine, called on their own
\* ------------------------------------------------------------------------

MaxWaveRows == 3
MaxProjects == 10
MaxOverruns == 4

\* an engine with no file, or with a forecast file loaded, and one call to make:
\* _generate_project_assessment on the parts analyze_project has read (the
\* baseline_metrics, latest_wave_snapshot and actuals_summary it builds from the
\* columns a table has and the cells a row holds), _detect_column on a header of
\* two columns over one row or none, _get_latest_wave_snapshot and
\* _classify_health on three health values, get_portfolio_summary on the
\* analyzed projects of a baseline file and an actuals file,
\* _get_wave_trends on a forecast file of up to MaxWaveRows rows in any order,
\* with a key column or with a name column only
InitFunctions ==
  LET BaselineInputs ==
        {UpdateAll(EmptyDict, <<budget, completion, hours, finish, health>>) :
           budget \in {EmptyDict, [total_budget |-> Num(100000)]},
           completion \in {EmptyDict, [completion_pct |-> Num(40)]},
           hours \in {EmptyDict, [planned_hours |-> Num(100)]},
           finish \in {EmptyDict, [baseline_finish |-> PyStr(Date(100))],
                       [baseline_finish |-> Str(Chars("None"))]},
           health \in {EmptyDict,
                       [schedule_health |-> Str(Chars("Green")), budget_health |-> Str(Chars("Green"))],
                       [schedule_health |-> Str(Chars("Red")), budget_health |-> None]}}
      WaveInputs ==
        {EmptyDict} \cup
        {UpdateAll(status, <<finish, completion>>) :
           status \in {EmptyDict, [status |-> Str(Chars("Green"))], [status |-> Str(Chars("Red"))],
                       [status |-> Str(Chars("On Track"))]},
           finish \in {[forecast_finish |-> PyStr(Date(100))], [forecast_finish |-> PyStr(Date(150))],
                       [forecast_finish |-> Str(Chars("None"))]},
           completion \in {EmptyDict, [completion_pct |-> Num(10)]}}
      ActualsInputs ==
        {EmptyDict} \cup
        {UpdateAll([transaction_count |-> Num(1)], <<cost, hours, span>>) :
           cost \in {[total_cost |-> Num(0)], [total_cost |-> Num(50000)], [total_cost |-> Num(90000)],
                     [total_cost |-> Num(100000)], [total_cost |-> Num(130000)]},
           hours \in {EmptyDict, [total_hours |-> Num(80)]},
           span \in {EmptyDict, [work_span_days |-> Num(10)]}}
      AssessCalls ==
        {[op |-> "call", function |-> "_generate_project_assessment",
          baseline_metrics |-> baseline_metrics, wave_snapshot |-> wave_snapshot,
          actuals_summary |-> actuals_summary] :
           baseline_metrics \in BaselineInputs, wave_snapshot \in WaveInputs,
           actuals_summary \in ActualsInputs}
      names == {Chars("name"), Chars("Project_ID "), Chars("ID"), Chars("Wave #"), Chars("status")}
      DetectTables ==
        {Table(columns, rows) : columns \in {c \in names \X names : c[1] # c[2]},
                                rows \in {<<>>, <<<<NaN, NaN>>>>}}
      DetectCalls ==
        {[op |-> "call", function |-> "_detect_column", df |-> df,
          patterns |-> FieldPatterns[f].patterns] : df \in DetectTables, f \in 1..3}
      WaveTitledRows ==
        << <<Str(Chars("P1")), Str(Chars("Alpha")), Str(Chars("Green"))>>,
           <<Str(Chars(" p1")), Str(Chars("Alpha")), Str(Chars("RED"))>>,
           <<Str(Chars("P1")), Str(Chars("Alpha")), Str(Chars("Delayed 2 weeks"))>>,
           <<Str(Chars("P1")), Str(Chars("Alpha")), NaN>>,
           <<Str(Chars("P3")), Str(Chars("P2")), Str(Chars("Green"))>>,
           <<Str(Chars("P3")), Str(Chars("Beta")), Str(Chars("Delayed"))>> >>
      WaveTitledTables ==
        {Table(WaveTitledColumns, [i \in 1..n |-> WaveTitledRows[pick[i]]]) :
           n \in 1..MaxWaveRows, pick \in [1..MaxWaveRows -> 1..Len(WaveTitledRows)]}
      WaveCalls ==
        {[op |-> "call", function |-> function, project_id |-> project_id] :
           function \in {"_get_latest_wave_snapshot", "_get_wave_trends"},
           project_id \in {Str(Chars("P1")), Str(Chars("p2 "))}}
      WaveNamedRows ==
        << <<Str(Chars("P1")), Str(Chars("Green"))>>,
           <<Str(Chars("p1 ")), Str(Chars("Red"))>>,
           <<Str(Chars("P1x")), Str(Chars("Green"))>>,
           <<Str(Chars("P12")), Str(Chars("Green"))>>,
           <<Str(Chars("abcdefg")), Str(Chars("Green"))>>,
           <<NaN, Str(Chars("Green"))>> >>
      WaveNamedTables ==
        {Table(SubSeq(WaveTitledColumns, 2, 3), [i \in 1..n |-> WaveNamedRows[pick[i]]]) :
           n \in 1..MaxWaveRows, pick \in [1..MaxWaveRows -> 1..Len(WaveNamedRows)]}
      HealthInputs ==
        {None, NaN, Str(<<>>), Str(Chars("Green")), Str(Chars(" RED ")), Str(Chars("Yellow")),
         Str(Chars("at risk")), Str(Chars("Low")), Str(Chars("HIGH")), Str(Chars("Blocked"))}
      ClassifyCalls ==
        {[op |-> "call", function |-> "_classify_health", schedule_health |-> schedule_health,
          budget_health |-> budget_health, risk_level |-> risk_level] :
           schedule_health \in HealthInputs, budget_health \in HealthInputs,
           risk_level \in HealthInputs}
      NameCalls ==
        {[op |-> "call", function |-> "_get_latest_wave_snapshot", project_id |-> project_id] :
           project_id \in {Str(Chars("P1")), Str(Chars("abc"))}}
      \* a baseline file of n projects with a budget of 100000 each and an
      \* actuals file with a cost of 130000 for the first k of them
      Baselines(n) ==
        Table(SubSeq(SmartsheetColumns, 1, 2),
              [i \in 1..n |-> <<Str(<<"P", UpperCase[i]>>), Num(100000)>>])
      Actuals(k) ==
        IF k = 0 THEN None
        ELSE Table(TickColumns, [i \in 1..k |-> <<Str(<<"P", UpperCase[i]>>), Num(10), Num(130000)>>])
      Portfolios ==
        {Sources(Baselines(n), SmartsheetCols(Baselines(n)), None, EmptyDict,
                 Actuals(k), IF k = 0 THEN EmptyDict ELSE SharedKeyCols(Actuals(k))) :
           n \in 1..MaxProjects, k \in 0..MaxOverruns}
      NoFile ==
        /\ smartsheet_data = None
        /\ tick_data = None
        /\ smartsheet_cols = EmptyDict
        /\ tick_cols = EmptyDict
        /\ projects = <<>>
      Analysed(src) ==
        /\ smartsheet_data = src.smartsheet_data
        /\ wave_data = src.wave_data
        /\ tick_data = src.tick_data
        /\ smartsheet_cols = src.smartsheet_cols
        /\ wave_cols = src.wave_cols
        /\ tick_cols = src.tick_cols
        /\ projects = AnalyzeEach(src, DiscoveredIds(src), 1, 0, <<>>)
  IN
  /\ \/ /\ NoFile
        /\ wave_data = None
        /\ wave_cols = EmptyDict
        /\ last \in AssessCalls \cup DetectCalls \cup ClassifyCalls
     \/ /\ NoFile
        /\ wave_data \in WaveTitledTables
        /\ wave_cols = SharedKeyCols(wave_data)
        /\ last \in WaveCalls
     \/ /\ NoFile
        /\ wave_data \in WaveNamedTables
        /\ wave_cols = SharedKeyCols(wave_data)
        /\ last \in NameCalls
     \/ /\ \E src \in {p \in Portfolios : p.tick_data = None \/ Len(p.tick_data.rows) <= Len(p.smartsheet_data.rows)} :
             Analysed(src)
        /\ last = [op |-> "call", function |-> "get_portfolio_summary"]
  /\ portfolio_insights = EmptyDict
  /\ executive_insights = <<>>
  /\ vp_insights = <<>>
  /\ manager_insights = <<>>
  /\ objects = <<>>
  /\ clock = 0
  /\ mutations = 0

\* analyze_project from the derived metrics on (lines 940-954), for the
\* three parts it has read
AssessRecord ==
  LET Assessed(project_data) ==
        last' = [op |-> "_generate_project_assessment",
                 project_data |-> project_data,
                 raised |-> AssessmentRaises(project_data["baseline_metrics"]),
                 result |-> IF AssessmentRaises(project_data["baseline_metrics"]) THEN None
                            ELSE _generate_project_assessment(project_data, clock)]
      Evaluated(project_data) ==
        Assessed([project_data EXCEPT !.rule_evaluations = _evaluate_consistency_rules(project_data)])
  IN /\ last.op = "call"
     /\ last.function = "_generate_project_assessment"
     /\ Evaluated([project_metadata |-> [project_id |-> Str(Chars("P1")), analysis_timestamp |-> clock],
                   baseline_metrics |-> last.baseline_metrics,
                   latest_wave_snapshot |-> last.wave_snapshot,
                   wave_trends |-> EmptyDict,
                   actuals_summary |-> last.actuals_summary,
                   derived_metrics |->
                     _calculate_derived_metrics(last.baseline_metrics, last.wave_snapshot,
                                                last.actuals_summary),
                   rule_evaluations |-> <<>>])
     /\ UNCHANGED <<tables, projects, portfolio_insights, insights, clock>>

\* _detect_column(df, patterns)
DetectColumn ==
  LET Detected(d) ==
        last' = [op |-> "_detect_column", df |-> last.df, patterns |-> last.patterns,
                 result |-> IF d.found THEN Str(d.col) ELSE None]
  IN /\ last.op = "call"
     /\ last.function = "_detect_column"
     /\ Detected(IF last.df.rows = <<>> THEN [found |-> FALSE]
                 ELSE _detect_column(last.df.columns, last.patterns))
     /\ UNCHANGED <<tables, projects, portfolio_insights, insights, clock>>

\* _get_latest_wave_snapshot(project_id): the index of the row returned, 0 for None
LatestWaveSnapshot ==
  /\ last.op = "call"
  /\ last.function = "_get_latest_wave_snapshot"
  /\ last' = [op |-> "_get_latest_wave_snapshot", project_id |-> last.project_id,
              result |-> _get_latest_wave_snapshot(wave_data, wave_cols, last.project_id)]
  /\ UNCHANGED <<tables, projects, portfolio_insights, insights, clock>>

\* _get_wave_trends(project_id)
WaveTrends ==
  /\ last.op = "call"
  /\ last.function = "_get_wave_trends"
  /\ last' = [op |-> "_get_wave_trends", project_id |-> last.project_id,
              result |-> _get_wave_trends(wave_data, wave_cols, last.project_id)]
  /\ UNCHANGED <<tables, projects, portfolio_insights, insights, clock>>

\* _classify_health(schedule_health, budget_health, risk_level), and the
\* results of the call for the six orders of the same three arguments
ClassifyHealth ==
  LET Args(order) == [i \in 1..3 |-> <<last.schedule_health, last.budget_health, last.risk_level>>[order[i]]]
      Called(args) == _classify_health(args[1], args[2], args[3])
      Orders == {order \in [1..3 -> 1..3] : {order[i] : i \in 1..3} = 1..3}
  IN /\ last.op = "call"
     /\ last.function = "_classify_health"
     /\ last' = [op |-> "_classify_health", schedule_health |-> last.schedule_health,
                 budget_health |-> last.budget_health, risk_level |-> last.risk_level,
                 result |-> Called(Args(<<1, 2, 3>>)),
                 permuted |-> {Called(Args(order)) : order \in Orders}]
     /\ UNCHANGED <<tables, projects, portfolio_insights, insights, clock>>

\* get_portfolio_summary()
PortfolioSummaryOfAnalysed ==
  /\ last.op = "call"
  /\ last.function = "get_portfolio_summary"
  /\ get_portfolio_summary

NextFunctions ==
  \/ AssessRecord
  \/ PortfolioSummaryOfAnalysed
  \/ ClassifyHealth
  \/ DetectColumn
  \/ LatestWaveSnapshot
  \/ WaveTrends

SpecFunctions == InitFunctions /\ [][NextFunctions]_vars

\* ------------------------------------------------------------------------
\* The claims
\* ------------------------------------------------------------------------

\* C1: the derived metrics analyze_project computes for a project whose
\* baseline budget is 100,000 and whose summed actual cost is 130,000 hold
\* cost_variance_pct = -30.0, remaining_budget = -30,000 and budget_overrun = true.
C1_OverrunIsNegativeVariance ==
  (/\ last.op = "analyze_project"
   /\ ~last.result.raised
   /\ Get(last.result.data["baseline_metrics"], "total_budget", None) = Num(100000)
   /\ Get(last.result.data["actuals_summary"], "total_cost", None) = Num(130000))
  => LET derived == last.result.data["derived_metrics"]
     IN /\ Get(derived, "cost_variance_pct", None) = Num(-30)
        /\ Get(derived, "remaining_budget", None) = Num(-30000)
        /\ Get(derived, "budget_overrun", None) = Bool(TRUE)

\* C2: in every project record of the mapping, cost_variance_pct is present
\* in the derived metrics exactly when the baseline budget is present and
\* non-zero and the actual cost is present, an actual cost of 0 included.
C2_CostVariancePresence ==
  \A i \in 1..Len(projects) :
    LET baseline == projects[i].val["baseline_metrics"]
        actuals == projects[i].val["actuals_summary"]
        derived == projects[i].val["derived_metrics"]
    IN Has(derived, "cost_variance_pct")
       <=> (/\ Has(baseline, "total_budget")
            /\ baseline["total_budget"].v # 0
            /\ Has(actuals, "total_cost"))

\* C3: when analyze_all_projects has returned, every identifier it discovered
\* whose baseline row has an empty cell in a detected baseline field is in the
\* mapping, with a complete assessment.
C3_MissingDataIsNoError ==
  LET \* the fields whose detected column analyze_project reads into baseline_metrics
      BaselineFields ==
        {"start_date", "finish_date", "budget", "capex", "opex", "eac", "hours",
         "schedule_health", "budget_health", "risk", "owner", "strategic_alignment",
         "benefits", "completion", "stage", "interdependencies"}
      \* the first baseline row of id has an empty cell in such a column
      EmptyIn(rows) ==
        /\ Len(rows) > 0
        /\ \E field \in BaselineFields \cap DOMAIN smartsheet_cols :
             IsNa(Cell(smartsheet_data, rows[1], smartsheet_cols[field]))
      HasEmptyBaselineCell(id) ==
        /\ smartsheet_data.k # "none"
        /\ Has(smartsheet_cols, "id")
        /\ EmptyIn(KeyRows(smartsheet_data, smartsheet_cols["id"], Str(id)))
      AssessmentFields ==
        {"project_id", "project_name", "timestamp", "overall_assessment", "key_drivers",
         "cross_source_observations", "risks_warnings", "positive_signals", "data_gaps",
         "recommendations"}
  IN last.op = "analyze_all_projects"
     => \A i \in 1..Len(DiscoveredIds(Loaded)) :
          LET id == DiscoveredIds(Loaded)[i]
          IN HasEmptyBaselineCell(id)
             => /\ Str(id) \in Keys(projects)
                /\ "assessment" \in DOMAIN Lookup(projects, Str(id))
                /\ DOMAIN Lookup(projects, Str(id))["assessment"] = AssessmentFields

\* C4: when analyze_all_projects has returned, a discovered identifier whose
\* analysis raises has no entry in the mapping, and every other discovered
\* identifier has one.
C4_FailingProjectExcluded ==
  last.op = "analyze_all_projects"
  => \A i \in 1..Len(DiscoveredIds(Loaded)) :
       LET id == DiscoveredIds(Loaded)[i]
       IN IF analyze_project(Loaded, Str(id), 0).raised
          THEN Str(id) \notin Keys(projects)
          ELSE Str(id) \in Keys(projects)

\* C5: a project whose identity is invalid (None, '', 'UNKNOWN', 'NOT
\* SPECIFIED') is not counted in the total_projects of get_portfolio_summary,
\* nor in the tiers of its data_completeness.
C5_InvalidIdentityNotCounted ==
  (last.op = "get_portfolio_summary" /\ ~last.error)
  => LET valid == Cardinality({k \in Keys(projects) : _is_valid_project_id(k)})
         tiers == last.result.data_completeness
     IN /\ last.result.portfolio_overview.total_projects = valid
        /\ tiers.full_data + tiers.partial_data + tiers.minimal_data = valid

\* C6: when analyze_all_projects has returned on an engine whose mapping was
\* empty, the keys of the mapping are the valid normalized identifiers of the
\* id and wave number columns of the loaded tables, minus those whose
\* analysis raises.
C6_KeysAreValidUnion ==
  LET \* the valid normalized identifiers of the id column and of the wave
      \* number column of a loaded table
      ValidIdsOf(df, cols) ==
        IF df.k = "none" THEN {}
        ELSE {id \in UNION {NormalizedIds(df, cols[field]) :
                              field \in {"id", "wave_num"} \cap DOMAIN cols} :
                _is_valid_project_id(Str(id))}
  IN
  (last.op = "analyze_all_projects" /\ last.before = {})
  => Keys(projects)
     = {Str(id) : id \in {x \in ValidIdsOf(smartsheet_data, smartsheet_cols)
                                \cup ValidIdsOf(wave_data, wave_cols)
                                \cup ValidIdsOf(tick_data, tick_cols) :
                            ~analyze_project(Loaded, Str(x), 0).raised}}

\* C7: identifiers with equal normalized keys select the same baseline,
\* forecast and actuals rows, and the mapping holds a single entry for them.
C7_OneEntryPerIdentity ==
  /\ \A a, b \in Keys(projects) :
       _normalize_project_id(a) = _normalize_project_id(b) => a = b
  /\ (last.op = "analyze_project" /\ ~last.result.raised)
     => \A b \in CallerIds :
          _normalize_project_id(b) = _normalize_project_id(last.project_id)
          => \A part \in {"baseline_metrics", "latest_wave_snapshot", "actuals_summary"} :
               analyze_project(Loaded, b, 0).data[part] = last.result.data[part]

C9_PersonaCopiesIndependent ==
  [][LET \* a persona list as its reader sees it: each insight with its metrics
         \* dict and its data_sources_used list
         Seen(persona) ==
           [i \in 1..Len(PersonaList(persona)) |->
              [PersonaList(persona)[i] EXCEPT !.metrics = objects[@.v],
                                              !.data_sources_used = objects[@.v]]]
     IN last'.op \in {"set_severity", "set_metric"}
        => \A persona \in Personas \ {last'.persona} : Seen(persona)' = Seen(persona)]_vars

\* C10: the list a getter returns is a permutation of the stored persona list
\* in non-decreasing severity rank, the insights of one rank in the order the
\* stored list has them.
C10_SortedBySeverityStable ==
  LET \* the rank of a severity: critical, high, warning, info
      RankOf(severity) ==
        CASE severity = "critical" -> 0
          [] severity = "high" -> 1
          [] severity = "warning" -> 2
          [] severity = "info" -> 3
      \* the persona list a getter reads
      StoredFor(op) ==
        CASE op = "get_executive_insights" -> executive_insights
          [] op = "get_vp_insights" -> vp_insights
          [] op = "get_manager_insights" -> manager_insights
      Getters == {"get_executive_insights", "get_vp_insights", "get_manager_insights"}
      OfRank(list, rank) == SelectSeq(list, LAMBDA x : RankOf(x.severity) = rank)
  IN
  last.op \in Getters
  => /\ Len(last.result) = Len(StoredFor(last.op))
     /\ \A i, j \in 1..Len(last.result) :
          i < j => RankOf(last.result[i].severity) <= RankOf(last.result[j].severity)
     /\ \A rank \in 0..3 : OfRank(last.result, rank) = OfRank(StoredFor(last.op), rank)

\* a getter has returned a list in another order than the stored one, two of
\* its insights having the same rank
C10_Reordered ==
  LET \* the rank of a severity: critical, high, warning, info
      RankOf(severity) ==
        CASE severity = "critical" -> 0
          [] severity = "high" -> 1
          [] severity = "warning" -> 2
          [] severity = "info" -> 3
      \* the persona list a getter reads
      StoredFor(op) ==
        CASE op = "get_executive_insights" -> executive_insights
          [] op = "get_vp_insights" -> vp_insights
          [] op = "get_manager_insights" -> manager_insights
      Getters == {"get_executive_insights", "get_vp_insights", "get_manager_insights"}
  IN
  /\ last.op \in Getters
  /\ last.result # StoredFor(last.op)
  /\ \E i, j \in 1..Len(last.result) :
       i < j /\ RankOf(last.result[i].severity) = RankOf(last.result[j].severity)

\* C11: when generate_all_insights has run, each persona list holds, rule after
\* rule, the insights the rule appends when it is run alone on the analyzed
\* projects; a rule that cannot evaluate contributes none and the others all do.
C11_RulesIndependent ==
  LET \* a persona list of st as its reader sees it
      View(st, persona) ==
        [i \in 1..Len(st[persona]) |->
           [st[persona][i] EXCEPT !.metrics = st.objects[@.v],
                                  !.data_sources_used = st.objects[@.v]]]
      \* the i-th rule run alone, on empty lists
      Alone(i) == Formula(i, NoInsights, Loaded, projects)
      Stored == [executive_insights |-> executive_insights, vp_insights |-> vp_insights,
                 manager_insights |-> manager_insights, objects |-> objects]
  IN last.op = "generate_all_insights"
     => \A persona \in Personas :
          View(Stored, persona) = Flatten([i \in 1..16 |-> View(Alone(i), persona)])

\* C12: in every assessment each of the six lists holds at least one entry,
\* its sentinel only when it holds nothing else, and key_drivers and
\* recommendations hold at most 3.
C12_ListsNeverEmpty ==
  LET Sentinels ==
        [key_drivers |-> "Insufficient data for key drivers",
         cross_source_observations |-> "Single source data - limited cross-validation",
         risks_warnings |-> "No significant risks detected",
         positive_signals |-> "No strong positive signals identified",
         data_gaps |-> "Complete data from all three sources",
         recommendations |-> "Continue monitoring with current data"]
      Holds(list, sentinel) == \E i \in 1..Len(list) : list[i].text = sentinel
  IN (last.op = "_generate_project_assessment" /\ ~last.raised)
     => /\ \A field \in DOMAIN Sentinels :
             /\ Len(last.result[field]) >= 1
             /\ Holds(last.result[field], Sentinels[field]) => Len(last.result[field]) = 1
        /\ Len(last.result.key_drivers) <= 3
        /\ Len(last.result.recommendations) <= 3

\* an assessment of a record with four rule violations and complete data:
\* the recommendations are cut to three, the data gaps are the sentinel
C12_CutAndSentinel ==
  /\ last.op = "_generate_project_assessment"
  /\ ~last.raised
  /\ Len(last.project_data["rule_evaluations"]) = 4
  /\ Len(last.result.recommendations) = 3
  /\ last.result.data_gaps = <<Text("Complete data from all three sources")>>

\* C13: the data gaps of an assessment hold the cost variance line exactly
\* when the derived metrics have no cost_variance_pct, and the schedule
\* variance line exactly when they have no schedule_variance_days; a variance
\* of 0 is no gap.
C13_GapsAreAbsences ==
  LET derived == last.project_data["derived_metrics"]
      Reports(text) == \E i \in 1..Len(last.result.data_gaps) : last.result.data_gaps[i].text = text
  IN (last.op = "_generate_project_assessment" /\ ~last.raised)
     => /\ Reports("Cannot calculate cost variance - missing budget or actuals")
           <=> ~Has(derived, "cost_variance_pct")
        /\ Reports("Cannot calculate schedule variance - missing dates")
           <=> ~Has(derived, "schedule_variance_days")

\* C17: the derived completion_pct is the completion of the forecast snapshot
\* when the snapshot has one, else the completion of the baseline when it has
\* one, else none.
C17_CompletionFallsBack ==
  LET baseline == last.project_data["baseline_metrics"]
      wave == last.project_data["latest_wave_snapshot"]
      completion_pct == Get(last.project_data["derived_metrics"], "completion_pct", None)
  IN last.op = "_generate_project_assessment"
     => completion_pct = IF Has(wave, "completion_pct") THEN wave["completion_pct"]
                         ELSE IF Has(baseline, "completion_pct") THEN baseline["completion_pct"]
                         ELSE None

\* C14: a load stores the table it is given and the column map detected from
\* that table alone, and leaves the tables and maps of the other two sources
\* as they were; no other call changes a table or a map.
C14_LoadReplaces ==
  [][LET \* the fields detected in df, the id falling back to the first column
         WithId(df, cols) ==
           IF Has(cols, "id") THEN cols ELSE Put(cols, "id", df.columns[1])
         \* the same, the fallback taken only when there is no wave number either
         WithKey(df, cols) ==
           IF Has(cols, "id") \/ Has(cols, "wave_num") THEN cols
           ELSE Put(cols, "id", df.columns[1])
     IN /\ last'.op = "load_smartsheet"
           => /\ smartsheet_data' = last'.df
              /\ smartsheet_cols' = WithId(last'.df, _detect_columns_for_source(last'.df))
              /\ UNCHANGED <<wave_data, wave_cols, tick_data, tick_cols>>
        /\ last'.op = "load_wave"
           => /\ wave_data' = last'.df
              /\ wave_cols' = WithKey(last'.df, _detect_columns_for_source(last'.df))
              /\ UNCHANGED <<smartsheet_data, smartsheet_cols, tick_data, tick_cols>>
        /\ last'.op = "load_tick"
           => /\ tick_data' = last'.df
              /\ tick_cols' = WithKey(last'.df, _detect_columns_for_source(last'.df))
              /\ UNCHANGED <<smartsheet_data, smartsheet_cols, wave_data, wave_cols>>
        /\ last'.op \notin {"load_smartsheet", "load_wave", "load_tick"}
           => UNCHANGED tables]_vars

\* a baseline table with fewer columns has replaced another one, a forecast
\* table being loaded
C14_Reloaded ==
  /\ last.op = "load_smartsheet"
  /\ last.replaced
  /\ Len(last.df.columns) = 2
  /\ Len(last.df.rows) > 0
  /\ wave_data # None

\* C15: the list remove_duplicate_insights returns holds no two insights
\* with the same (title, category, severity); it is made of the first
\* occurrence of each such triple of the input, in the order of the input.
C15_FirstOccurrencesKept ==
  LET Key(insight) == <<insight.title, insight.category, insight.severity>>
      input == last.insights
      result == last.result
      firsts == {i \in 1..Len(input) : \A j \in 1..(i - 1) : Key(input[j]) # Key(input[i])}
  IN last.op = "remove_duplicate_insights"
     => /\ \A p, q \in 1..Len(result) : p # q => Key(result[p]) # Key(result[q])
        /\ Len(result) = Cardinality(firsts)
        /\ \A i \in firsts : result[Cardinality({j \in firsts : j <= i})] = input[i]

\* duplicates were removed from a combined list, and an insight that differs
\* from an earlier one by its severity only was kept
C15_DuplicatesRemoved ==
  /\ last.op = "remove_duplicate_insights"
  /\ Len(last.result) < Len(last.insights)
  /\ \E p, q \in 1..Len(last.result) :
       /\ p < q
       /\ last.result[p].title = last.result[q].title
       /\ last.result[p].category = last.result[q].category
       /\ last.result[p].severity # last.result[q].severity

\* C16: when generate_all_insights has run, every analyzed project with actual
\* hours, no baseline record and no forecast record is listed with its hours in
\* the Phantom Work Detection insight, whose phantom_hours is the sum of those
\* hours, and the denominator of every Strategy-Execution Coverage insight counts
\* the projects with a forecast record only, so none of these projects.
C16_PhantomHoursCounted ==
  LET Valid == {i \in 1..Len(projects) : _is_valid_project_id(projects[i].key)}
      Hours(i) == Get(projects[i].val["actuals_summary"], "total_hours", None)
      TickOnly == {i \in Valid : /\ Truthy(Hours(i))
                                 /\ projects[i].val["baseline_metrics"] = EmptyDict
                                 /\ projects[i].val["latest_wave_snapshot"] = EmptyDict}
      Forecast == {i \in Valid : projects[i].val["latest_wave_snapshot"] # EmptyDict}
      Shown == executive_insights \o vp_insights \o manager_insights
      Phantom == {j \in 1..Len(manager_insights) :
                    manager_insights[j].formula_used
                      = "Tick hours AND (No Smartsheet task AND No Wave mapping)"}
      Coverage == {j \in 1..Len(Shown) :
                     Shown[j].formula_used
                       = "Coverage % = Initiatives with (Smartsheet AND Tick) / Total Wave initiatives"}
      Listed(m, i) == \E p \in 1..Len(m.projects) :
                        /\ m.projects[p].project_id = projects[i].key
                        /\ m.projects[p].hours = Hours(i)
      Sums(m) == /\ \A i \in TickOnly : Listed(m, i)
                 /\ Len(m.projects) = Cardinality(TickOnly)
                 /\ m.phantom_hours = FSum([p \in 1..Len(m.projects) |-> m.projects[p].hours])
  IN last.op = "generate_all_insights" /\ TickOnly # {}
     => /\ \E j \in Phantom : Sums(objects[manager_insights[j].metrics.v])
        /\ \A j \in Coverage :
             objects[Shown[j].metrics.v].total_count = Cardinality(Forecast)

\* C16 where no rule raised: the same statement for the runs of
\* generate_all_insights that reach every rule.
C16_PhantomHoursCountedWhenAllRulesRan ==
  last.op = "generate_all_insights" /\ ~last.raised => C16_PhantomHoursCounted

\* a run of generate_all_insights that reached every rule, over a project with
\* actual hours only
C16_TickOnlyProject ==
  /\ last.op = "generate_all_insights" /\ ~last.raised
  /\ \E i \in 1..Len(projects) :
       /\ _is_valid_project_id(projects[i].key)
       /\ Truthy(Get(projects[i].val["actuals_summary"], "total_hours", None))
       /\ projects[i].val["baseline_metrics"] = EmptyDict
       /\ projects[i].val["latest_wave_snapshot"] = EmptyDict

\* C18: when _detect_column has run on a table with a column whose name, in
\* lower case and stripped, equals a pattern p and another column that equals
\* in the same way a pattern q declared after p, and neither column equals the
\* other's pattern, the column of p is returned, in either order of the columns.
C18_EarlierPatternWins ==
  LET Normalized(name) == Strip(Lower(name))
      Equals(col, i) == Normalized(col) = Normalized(last.patterns[i])
      Columns == {last.df.columns[c] : c \in 1..Len(last.df.columns)}
  IN last.op = "_detect_column" /\ last.df.rows # <<>>
     => \A i, j \in 1..Len(last.patterns) : \A a, b \in Columns :
          i < j /\ Equals(a, i) /\ Equals(b, j) /\ ~Equals(a, j) /\ ~Equals(b, i)
          => last.result = Str(a)

\* C18 for the column order of the patterns: the same statement where the
\* column of the earlier pattern also stands first in the table.
C18_FirstColumnWins ==
  LET Normalized(name) == Strip(Lower(name))
      Equals(c, i) == Normalized(last.df.columns[c]) = Normalized(last.patterns[i])
  IN last.op = "_detect_column" /\ last.df.rows # <<>>
     => \A i, j \in 1..Len(last.patterns) : \A a, b \in 1..Len(last.df.columns) :
          i < j /\ a < b /\ Equals(a, i) /\ Equals(b, j) /\ ~Equals(a, j) /\ ~Equals(b, i)
          => last.result = Str(last.df.columns[a])

\* C19: when the forecast file has a detected wave number column,
\* _get_latest_wave_snapshot returns a row only if the normalized key of that
\* row equals the normalized project identifier, and None when no row has an
\* equal key, whatever the name column holds.
C19_KeyColumnDecides ==
  LET Key(r) == _normalize_project_id(wave_data.rows[r][1])
      Equal == {r \in 1..Len(wave_data.rows) : Key(r) = _normalize_project_id(last.project_id)}
  IN last.op = "_get_latest_wave_snapshot" /\ "wave_num" \in DOMAIN wave_cols
     => /\ wave_cols["wave_num"] = wave_data.columns[1]
        /\ last.result # 0 => last.result \in Equal
        /\ Equal = {} => last.result = 0

\* C19 for the rows with an equal key: when some row has an equal key, the
\* last of them in the file is the row returned.
C19_LastEqualKeyReturned ==
  LET Key(r) == _normalize_project_id(wave_data.rows[r][1])
      Equal == {r \in 1..Len(wave_data.rows) : Key(r) = _normalize_project_id(last.project_id)}
  IN last.op = "_get_latest_wave_snapshot" /\ "wave_num" \in DOMAIN wave_cols /\ Equal # {}
     => last.result \in Equal /\ \A r \in Equal : r <= last.result

\* C20: when _get_wave_trends has run for a project with at least two forecast
\* rows of equal normalized key, recent_deterioration is set exactly when the
\* status of one of the last two of these rows, in file order and in lower
\* case, contains "red" or "delayed"; with fewer than two such rows the result
\* is None.
C20_DeteriorationBySubstring ==
  LET Key(r) == _normalize_project_id(wave_data.rows[r][1])
      Equal == {r \in 1..Len(wave_data.rows) : Key(r) = _normalize_project_id(last.project_id)}
      LastTwo == {r \in Equal : Cardinality({q \in Equal : q > r}) < 2}
      Status(r) == Lower(PyStr(wave_data.rows[r][3]).v)
      Bad(r) == Contains(Status(r), Chars("red")) \/ Contains(Status(r), Chars("delayed"))
  IN last.op = "_get_wave_trends"
     => IF Cardinality(Equal) < 2 THEN last.result = None
        ELSE /\ last.result # None
             /\ "recent_deterioration" \in DOMAIN last.result <=> \E r \in LastTwo : Bad(r)

\* C20 for whole status values: the same statement where the status is "red" or
\* "delayed" itself instead of containing it.
C20_DeteriorationByEquality ==
  LET Key(r) == _normalize_project_id(wave_data.rows[r][1])
      Equal == {r \in 1..Len(wave_data.rows) : Key(r) = _normalize_project_id(last.project_id)}
      LastTwo == {r \in Equal : Cardinality({q \in Equal : q > r}) < 2}
      Status(r) == Lower(PyStr(wave_data.rows[r][3]).v)
      Bad(r) == Status(r) \in {Chars("red"), Chars("delayed")}
  IN last.op = "_get_wave_trends"
     => IF Cardinality(Equal) < 2 THEN last.result = None
        ELSE /\ last.result # None
             /\ "recent_deterioration" \in DOMAIN last.result <=> \E r \in LastTwo : Bad(r)

\* C21: when generate_all_insights has run through all its rules, a critical
\* Value Leakage Index insight stands in the executive list and in the VP list
\* exactly when leakage_effort / total_effort exceeds 20%: total_effort sums the
\* effort (hours, else cost, else budget) of the valid projects with positive
\* effort, leakage_effort that of those with no value lever (no forecast
\* snapshot, no value lever column, or a cell that is missing, which the
\* snapshot holds as the text of NaN, or empty) or with a stalled status.
C21_LeakageOverTwentyPercent ==
  LET Part(i, part) == projects[i].val[part]
      First(a, b) == IF Truthy(a) THEN a ELSE b
      Effort(i) == First(First(Get(Part(i, "actuals_summary"), "total_hours", None),
                               Get(Part(i, "actuals_summary"), "total_cost", None)),
                         Get(Part(i, "baseline_metrics"), "total_budget", None))
      Text1(i, part, field) == Strip(Lower(PyStr(Get(Part(i, part), field, Str(<<>>))).v))
      NoLever(i) == Text1(i, "latest_wave_snapshot", "value_lever") \in {<<>>, Chars("nan"), Chars("none")}
      Stalled(i) == \/ Contains(Text1(i, "latest_wave_snapshot", "status"), Chars("stalled"))
                    \/ Contains(Text1(i, "latest_wave_snapshot", "status"), Chars("delayed"))
                    \/ Contains(Text1(i, "baseline_metrics", "schedule_health"), Chars("red"))
      Counted == SelectSeq([i \in 1..Len(projects) |-> i],
                           LAMBDA i : _is_valid_project_id(projects[i].key) /\ Positive(Effort(i)))
      Leaking == SelectSeq(Counted, LAMBDA i : NoLever(i) \/ Stalled(i))
      Total(s) == FSum([n \in 1..Len(s) |-> Effort(s[n])])
      Over == /\ Counted # <<>>
              /\ FGt(FMul(Total(Leaking), Num(5)), Total(Counted))
      In(list) == \E j \in 1..Len(list) :
                    list[j].category = "value_leakage" /\ list[j].severity = "critical"
  IN last.op = "generate_all_insights" /\ ~last.raised
     => /\ In(executive_insights) <=> Over
        /\ In(vp_insights) <=> Over

\* C21 with the text of NaN taken for a value lever: the same statement where
\* a missing value lever cell counts as a value lever.
C21_LeakageWithNaNAsLever ==
  LET Part(i, part) == projects[i].val[part]
      First(a, b) == IF Truthy(a) THEN a ELSE b
      Effort(i) == First(First(Get(Part(i, "actuals_summary"), "total_hours", None),
                               Get(Part(i, "actuals_summary"), "total_cost", None)),
                         Get(Part(i, "baseline_metrics"), "total_budget", None))
      Text1(i, part, field) == Strip(Lower(PyStr(Get(Part(i, part), field, Str(<<>>))).v))
      NoLever(i) == Text1(i, "latest_wave_snapshot", "value_lever") \in {<<>>, Chars("none")}
      Stalled(i) == \/ Contains(Text1(i, "latest_wave_snapshot", "status"), Chars("stalled"))
                    \/ Contains(Text1(i, "latest_wave_snapshot", "status"), Chars("delayed"))
                    \/ Contains(Text1(i, "baseline_metrics", "schedule_health"), Chars("red"))
      Counted == SelectSeq([i \in 1..Len(projects) |-> i],
                           LAMBDA i : _is_valid_project_id(projects[i].key) /\ Positive(Effort(i)))
      Leaking == SelectSeq(Counted, LAMBDA i : NoLever(i) \/ Stalled(i))
      Total(s) == FSum([n \in 1..Len(s) |-> Effort(s[n])])
      Over == /\ Counted # <<>>
              /\ FGt(FMul(Total(Leaking), Num(5)), Total(Counted))
      In(list) == \E j \in 1..Len(list) :
                    list[j].category = "value_leakage" /\ list[j].severity = "critical"
  IN last.op = "generate_all_insights" /\ ~last.raised
     => /\ In(executive_insights) <=> Over
        /\ In(vp_insights) <=> Over

\* C22: when the forecast file has no wave number column and has a name
\* column, _get_latest_wave_snapshot returns the first row, in file order, of
\* those whose name is most similar to the project identifier, provided that
\* similarity is strictly greater than 0.6, and None otherwise.
C22_FirstBestNameWins ==
  LET Score(r) == _fuzzy_match_score(last.project_id, wave_data.rows[r][1])
      Rows == 1..Len(wave_data.rows)
      Best == {r \in Rows : \A q \in Rows : ~FGt(Score(q), Score(r))}
      First == CHOOSE r \in Best : \A q \in Best : r <= q
  IN /\ last.op = "_get_latest_wave_snapshot"
     /\ "wave_num" \notin DOMAIN wave_cols
     /\ "name" \in DOMAIN wave_cols
     => /\ wave_cols["name"] = wave_data.columns[1]
        /\ last.result = IF FGt(Score(First), Rat(6, 10)) THEN First ELSE 0

\* a call that met two rows of the same best similarity above 0.6, the second
\* of them with another name, and returned the first of the two
C22_TieReturnedFirst ==
  /\ last.op = "_get_latest_wave_snapshot"
  /\ "wave_num" \notin DOMAIN wave_cols
  /\ "name" \in DOMAIN wave_cols
  /\ Len(wave_data.rows) = 3
  /\ last.result = 2
  /\ wave_data.rows[2][1] # wave_data.rows[3][1]
  /\ _fuzzy_match_score(last.project_id, wave_data.rows[3][1])
       = _fuzzy_match_score(last.project_id, wave_data.rows[2][1])
  /\ FGt(_fuzzy_match_score(last.project_id, wave_data.rows[2][1]), Rat(6, 10))

\* a call whose best similarity is 0.6 itself, and the result None
C22_ThresholdNotReached ==
  /\ last.op = "_get_latest_wave_snapshot"
  /\ "wave_num" \notin DOMAIN wave_cols
  /\ \E r \in 1..Len(wave_data.rows) :
       _fuzzy_match_score(last.project_id, wave_data.rows[r][1]) = Rat(6, 10)
  /\ last.result = 0

\* C23: when analyze_project has returned and the forecast file has a wave
\* number column with several rows whose normalized key equals that of the
\* project, the snapshot of the record is taken from the last of these rows in
\* file order: its status and its value lever are the texts of that row's cells.
C23_LastRowInFileOrder ==
  LET Key(r) == _normalize_project_id(wave_data.rows[r][1])
      Equal == {r \in 1..Len(wave_data.rows) :
                  Key(r).k = "str" /\ Key(r) = _normalize_project_id(last.project_id)}
      Last == CHOOSE r \in Equal : \A q \in Equal : q <= r
      Snapshot == last.result.data["latest_wave_snapshot"]
  IN /\ last.op = "analyze_project" /\ ~last.result.raised
     /\ wave_data # None /\ "wave_num" \in DOMAIN wave_cols
     /\ Cardinality(Equal) >= 2
     => /\ wave_cols["wave_num"] = wave_data.columns[1]
        /\ wave_data.columns[2] = Chars("status") /\ wave_data.columns[3] = Chars("value_lever")
        /\ Snapshot["status"] = PyStr(wave_data.rows[Last][2])
        /\ Snapshot["value_lever"] = PyStr(wave_data.rows[Last][3])

\* an analyze_project over two forecast rows of the project's key that differ
\* in status, the earlier one with the later approval date
C23_TwoRowsOfOneKey ==
  /\ last.op = "analyze_project" /\ ~last.result.raised
  /\ wave_data # None /\ "wave_num" \in DOMAIN wave_cols
  /\ Len(wave_data.rows) = 2
  /\ \A r \in {1, 2} :
       _normalize_project_id(wave_data.rows[r][1]) = _normalize_project_id(last.project_id)
  /\ wave_data.rows[1][2] # wave_data.rows[2][2]
  /\ wave_data.rows[1][4].k = "date" /\ wave_data.rows[2][4].k = "nan"
  /\ last.result.data["latest_wave_snapshot"]["status"] = wave_data.rows[2][2]

\* C24: the rule evaluations of a project hold status_cost_mismatch, with
\* severity warning, exactly when the project has a forecast snapshot whose
\* status, in lower case, contains "green" or "on track" and its derived
\* metrics hold a cost_variance_pct below -10; without a status or without a
\* cost variance the rule is not recorded.
C24_StatusCostMismatch ==
  LET wave == last.project_data["latest_wave_snapshot"]
      derived == last.project_data["derived_metrics"]
      rules == last.project_data["rule_evaluations"]
      Recorded == {i \in 1..Len(rules) : rules[i].rule = "status_cost_mismatch"}
      Healthy(text) == Contains(text, Chars("green")) \/ Contains(text, Chars("on track"))
      Below(x) == x.k = "num" /\ x.v < (0 - 10) * x.d
      Due == /\ wave # EmptyDict
             /\ "status" \in DOMAIN wave
             /\ Healthy(Lower(wave["status"].v))
             /\ "cost_variance_pct" \in DOMAIN derived
             /\ Below(derived["cost_variance_pct"])
  IN last.op = "_generate_project_assessment"
     => /\ Recorded # {} <=> Due
        /\ Cardinality(Recorded) <= 1
        /\ \A i \in Recorded : rules[i].severity = "warning"

\* an evaluation of a project with status Green and cost_variance_pct = -50
\* that recorded the rule
C24_GreenAndFarBelowBudget ==
  /\ last.op = "_generate_project_assessment"
  /\ Get(last.project_data["latest_wave_snapshot"], "status", None) = Str(Chars("Green"))
  /\ Get(last.project_data["derived_metrics"], "cost_variance_pct", None) = Num(0 - 50)
  /\ \E i \in 1..Len(last.project_data["rule_evaluations"]) :
       last.project_data["rule_evaluations"][i].rule = "status_cost_mismatch"

\* an evaluation of a project with status On Track and cost_variance_pct = -10
\* itself, which records no status_cost_mismatch
C24_AtTheThreshold ==
  /\ last.op = "_generate_project_assessment"
  /\ Get(last.project_data["latest_wave_snapshot"], "status", None) = Str(Chars("On Track"))
  /\ Get(last.project_data["derived_metrics"], "cost_variance_pct", None) = Num(0 - 10)
  /\ \A i \in 1..Len(last.project_data["rule_evaluations"]) :
       last.project_data["rule_evaluations"][i].rule # "status_cost_mismatch"

\* C25: _classify_health scores each argument 3, 2 or 1 by the lexicon (green,
\* on track, low: 3; yellow, at risk, medium: 2; red, delayed, high: 1; absent
\* or any other text: 2), returns "On Track" when the average of the three
\* scores is at least 2.5, "At Risk" when it is at least 1.5 and "Delayed"
\* otherwise, and returns the same for the six orders of its arguments.
C25_ClassifyHealthByAverage ==
  LET Word(x) == IF x.k = "str" THEN Strip(Lower(x.v)) ELSE <<>>
      Score(x) == CASE Word(x) \in {Chars("green"), Chars("on track"), Chars("low")} -> 3
                    [] Word(x) \in {Chars("red"), Chars("delayed"), Chars("high")} -> 1
                    [] OTHER -> 2
      Sum == Score(last.schedule_health) + Score(last.budget_health) + Score(last.risk_level)
      \* Sum / 3 >= 2.5 and Sum / 3 >= 1.5, in halves of thirds
      Expected == IF 2 * Sum >= 15 THEN "On Track"
                  ELSE IF 2 * Sum >= 9 THEN "At Risk"
                  ELSE "Delayed"
  IN last.op = "_classify_health"
     => last.result = Expected /\ last.permuted = {Expected}

\* a call with three different scores, whose result is the middle class
C25_ThreeDifferentScores ==
  /\ last.op = "_classify_health"
  /\ last.schedule_health = Str(Chars(" RED "))
  /\ last.budget_health = Str(Chars("Green"))
  /\ last.risk_level = Str(Chars("Blocked"))
  /\ last.result = "At Risk"

\* C26: the portfolio_risks of get_portfolio_summary hold a "budget_trend" risk
\* exactly when the number of analyzed projects whose derived metrics hold
\* budget_overrun = true is strictly greater than 30% of the number of analyzed
\* projects.
C26_BudgetTrendOverThirtyPercent ==
  LET risks == last.result.portfolio_risks
      Over == {i \in 1..Len(projects) :
                 /\ "budget_overrun" \in DOMAIN projects[i].val["derived_metrics"]
                 /\ projects[i].val["derived_metrics"]["budget_overrun"] = Bool(TRUE)}
      Raised == \E r \in 1..Len(risks) : risks[r].risk = "budget_trend"
  IN last.op = "get_portfolio_summary" /\ ~last.error
     => (Raised <=> 10 * Cardinality(Over) > 3 * Len(projects))

\* a summary of ten analyzed projects, three of them over budget, that is 30%
\* itself, without a budget_trend risk
C26_ThreeOfTen ==
  /\ last.op = "get_portfolio_summary" /\ ~last.error
  /\ Len(projects) = 10
  /\ Cardinality({i \in 1..10 : Get(projects[i].val["derived_metrics"], "budget_overrun", None)
                                    = Bool(TRUE)}) = 3
  /\ \A r \in 1..Len(last.result.portfolio_risks) :
       last.result.portfolio_risks[r].risk # "budget_trend"

\* a summary of three analyzed projects, one of them over budget, with the risk
C26_OneOfThree ==
  /\ last.op = "get_portfolio_summary" /\ ~last.error
  /\ Len(projects) = 3
  /\ Cardinality({i \in 1..3 : Get(projects[i].val["derived_metrics"], "budget_overrun", None)
                                   = Bool(TRUE)}) = 1
  /\ \E r \in 1..Len(last.result.portfolio_risks) :
       last.result.portfolio_risks[r].risk = "budget_trend"

\* C27: on an engine that has only loaded files and analyzed all projects, the
\* mapping the latest analyze_all_projects returns holds only identifiers the
\* files loaded at that moment let discover and whose analysis does not raise.
C27_NoStaleEntries ==
  LET ids == DiscoveredIds(Loaded)
      Discoverable == {Str(ids[i]) : i \in 1..Len(ids)}
  IN last.op = "analyze_all_projects"
     => \A i \in 1..Len(projects) :
          /\ projects[i].key \in Discoverable
          /\ ~analyze_project(Loaded, projects[i].key, 0).raised

\* C27 for the first run: the same statement for an analyze_all_projects that
\* found the mapping empty.
C27_NoStaleEntriesOnFirstRun ==
  last.op = "analyze_all_projects" /\ last.before = {} => C27_NoStaleEntries

\* C28: after analyze_all_projects the transaction counts of the analyzed
\* projects add up to at most the number of rows of the loaded actuals table,
\* and their total hours to at most the hours of the table.
C28_RowsCountedOnce ==
  LET actuals(i) == projects[i].val["actuals_summary"]
      counts == [i \in 1..Len(projects) |-> Get(actuals(i), "transaction_count", Num(0))]
      hours == [i \in 1..Len(projects) |-> Get(actuals(i), "total_hours", Num(0))]
      all == IF tick_data = None THEN <<>> ELSE RowIndices(tick_data)
      table_hours ==
        IF Has(tick_cols, "actual_hours") THEN SumCells(tick_data, all, tick_cols["actual_hours"], 1)
        ELSE IF Has(tick_cols, "hours") THEN SumCells(tick_data, all, tick_cols["hours"], 1)
        ELSE Num(0)
  IN last.op = "analyze_all_projects"
     => /\ FLe(FSum(counts), Num(Len(all)))
        /\ FLe(FSum(hours), table_hours)
\* C28, for rows matched by the key column on an engine whose mapping was
\* empty before the run.
C28_RowsCountedOnceByKey ==
  last.op = "analyze_all_projects" /\ last.before = {} /\ Has(tick_cols, "wave_num")
    => C28_RowsCountedOnce
\* C28, on an engine whose mapping was empty before the run.
C28_RowsCountedOnceOnFirstRun ==
  last.op = "analyze_all_projects" /\ last.before = {} => C28_RowsCountedOnce

\* C29: no project record of the mapping whose derived metrics carry
\* budget_overrun = true has "Cost tracking within or under budget" among the
\* positive signals of its assessment or a cost underrun among its key drivers.
C29_OverrunNeverPraised ==
  \A i \in 1..Len(projects) :
    LET derived == projects[i].val["derived_metrics"]
        assessment == projects[i].val["assessment"]
        Says(list, text) == \E j \in 1..Len(list) : list[j].text = text
    IN Get(derived, "budget_overrun", None) = Bool(TRUE)
       => /\ ~Says(assessment.positive_signals, "Cost tracking within or under budget")
          /\ ~Says(assessment.key_drivers, "Cost underrun: under baseline budget")

\* C30: a generate_all_insights that directly follows another leaves each
\* persona list with the content it had, metrics and sources included; a call
\* made after the lists were filled leaves each list as long as it was; and no
\* call changes a loaded table, a column map or the project mapping.
C30_NoAccumulation ==
  [][LET Content(ex, vp, mg, objs) ==
           LET Shown(list) ==
                 [i \in 1..Len(list) |->
                    [list[i] EXCEPT !.metrics = objs[list[i].metrics.v],
                                    !.data_sources_used = objs[list[i].data_sources_used.v]]]
           IN <<Shown(ex), Shown(vp), Shown(mg)>>
     IN last'.op = "generate_all_insights"
        => /\ UNCHANGED <<tables, projects>>
           /\ last.op = "generate_all_insights"
              => Content(executive_insights', vp_insights', manager_insights', objects')
                 = Content(executive_insights, vp_insights, manager_insights, objects)
           /\ objects # <<>>
              => /\ Len(executive_insights') = Len(executive_insights)
                 /\ Len(vp_insights') = Len(vp_insights)
                 /\ Len(manager_insights') = Len(manager_insights)]_vars
\* generate_all_insights called directly after generate_all_insights, neither
\* raising, with insights in all three lists
C30_GeneratedTwiceInARow ==
  /\ last.op = "generate_all_insights"
  /\ last.again
  /\ ~last.raised
  /\ Len(executive_insights) > 0
  /\ Len(vp_insights) > 0
  /\ Len(manager_insights) > 0

====
